---------------------------- MODULE Spec2Model ----------------------------
(***************************************************************************)
(* Storage-engine family of the teaching database: record codec            *)
(* (Utils/Registro.py), Heap File (Heap_struct/Heap.py), Sequential File   *)
(* (Sequential_Struct/sequential_file.py), page-based ISAM (ISAM.py),      *)
(* three-level ISAM (ISAM/ISAM.py), Extendible Hashing                     *)
(* (extendible_hashing/extendible_hashing.py) and B+Tree                   *)
(* (b_plus_tree/bplustree.py).                                             *)
(*                                                                         *)
(* Every structure is one record-valued variable holding the contents of   *)
(* its backing files and in-memory fields; every public operation is an    *)
(* operator from a state (and arguments) to the new state and the value    *)
(* returned, and an action applies it.  The variable `engine` says which   *)
(* structure a run exercises; the others stay as constructed.              *)
(***************************************************************************)
EXTENDS Integers, Sequences, FiniteSets, TLC

VARIABLES engine, budget,
          cSchema, cRecord, cStage, cVal,
          heap, heapLog, heapRet, hp,
          sf, sfRef, sfRet, sfShadow,
          isam, isamRet,
          ix, ixRet,
          eh, ehShadow, ehRet,
          bt, btShadow, btRet

codecVars == <<cSchema, cRecord, cStage, cVal>>
heapVars  == <<heap, heapLog, heapRet, hp>>
seqVars   == <<sf, sfRef, sfRet, sfShadow>>
isamVars  == <<isam, isamRet>>
ixVars    == <<ix, ixRet>>
ehVars    == <<eh, ehShadow, ehRet>>
btVars    == <<bt, btShadow, btRet>>
vars == <<engine, budget, codecVars, heapVars, seqVars, isamVars, ixVars, ehVars, btVars>>

(***************************************************************************)
(* Generic helpers                                                         *)
(***************************************************************************)
Range(s) == {s[i] : i \in 1..Len(s)}

Min2(a, b) == IF a <= b THEN a ELSE b

Max2(a, b) == IF a >= b THEN a ELSE b

\* a function over 1..n as the sequence it is; TLC builds function constructors
\* lazily, and the sequence operators and EXCEPT act on the built tuple
Tuple(f) == f \o <<>>

\* Python slice s[a:b] with 0-based a, b already clamped by the caller's use
Slice(s, a, b) == Tuple([i \in 1..Max2(0, Min2(b, Len(s)) - a) |-> s[a + i]])

\* Python list.insert(i, x), 0-based i
InsertAt(s, i, x) == Slice(s, 0, i) \o <<x>> \o Slice(s, i, Len(s))

RECURSIVE Pow2(_)
Pow2(n) == IF n <= 0 THEN 1 ELSE 2 * Pow2(n - 1)

Abs(n) == IF n < 0 THEN -n ELSE n

(***************************************************************************)
(* Python values.  Every value is a record of the same shape so that       *)
(* values of different Python types can be compared.                       *)
(***************************************************************************)
PyNone     == [k |-> "none",  n |-> 0, s |-> <<>>]
PyNaN      == [k |-> "nan",   n |-> 0, s |-> <<>>]
PyInt(n)   == [k |-> "int",   n |-> n, s |-> <<>>]
\* a float whose value is the integer n (the model's floats are integer-valued)
PyFloat(n) == [k |-> "float", n |-> n, s |-> <<>>]
PyBool(b)  == [k |-> "bool",  n |-> IF b THEN 1 ELSE 0, s |-> <<>>]
\* text and bytes are sequences of byte codes (ASCII, 0 is the NUL byte)
PyStr(s)   == [k |-> "str",   n |-> 0, s |-> s]
PyBytes(s) == [k |-> "bytes", n |-> 0, s |-> s]
PyError    == [k |-> "error", n |-> 0, s |-> <<>>]

IsNumber(v) == v.k \in {"int", "float", "bool"}

\* Python's ==
PyEq(a, b) ==
  IF IsNumber(a) /\ IsNumber(b) THEN a.n = b.n
  ELSE IF a.k = "nan" \/ b.k = "nan" THEN FALSE
  ELSE a.k = b.k /\ a.s = b.s

\* Python's == on two lists
PyListEq(x, y) ==
  /\ Len(x) = Len(y)
  /\ \A i \in 1..Len(x) : PyEq(x[i], y[i])

(***************************************************************************)
(* Record codec: Utils/Registro.py                                         *)
(***************************************************************************)
\* -2147483648, the NULL sentinel of the integer formats
INT_NULL == -2147483647 - 1

BYTE_NULL == -128

\* a field type: "i", "q", "f", "d", "?" or a text of n bytes ("ns")
Ty(t)   == [t |-> t, w |-> 0]
TyStr(w) == [t |-> "s", w |-> w]

IsIntTy(ty)   == ty.t \in {"i", "q"}
IsFloatTy(ty) == ty.t \in {"f", "d"}

\* struct.pack range of the integer formats; the model's integers are the
\* 32-bit ones, all of which fit "i" and "q"
IntFits(ty, n) == n >= INT_NULL /\ n <= 2147483647

\* the power of two that is the spacing of 4-byte floats around |n| >= 2^24
RECURSIVE Ulp32(_, _)
Ulp32(a, u) == IF a \div u < 16777216 THEN u ELSE Ulp32(a, u * 2)

\* struct.pack('f', n): round to nearest 4-byte float, ties to even
F32(n) ==
  IF Abs(n) <= 16777216 THEN n
  ELSE LET u == Ulp32(Abs(n), 1)
           lo == (n \div u) * u
           r == n - lo
       IN IF 2 * r < u THEN lo
          ELSE IF 2 * r > u THEN lo + u
          ELSE IF (lo \div u) % 2 = 0 THEN lo ELSE lo + u

RECURSIVE RStripNul(_)
RStripNul(s) ==
  IF s # <<>> /\ s[Len(s)] = 0 THEN RStripNul(SubSeq(s, 1, Len(s) - 1)) ELSE s

LJustNul(s, w) == s \o Tuple([i \in 1..(w - Len(s)) |-> 0])

\* RegistroType._get_null_value
GetNullValue(ty) ==
  IF IsIntTy(ty) THEN PyInt(INT_NULL)
  ELSE IF IsFloatTy(ty) THEN PyNaN
  ELSE IF ty.t = "?" THEN PyInt(BYTE_NULL)
  ELSE PyBytes(LJustNul(<<>>, ty.w))

\* RegistroType._convert_value, for a value of the field's own Python type
ConvertValue(v, ty) ==
  IF v.k = "none" THEN GetNullValue(ty)
  ELSE IF IsIntTy(ty) THEN PyInt(v.n)
  ELSE IF IsFloatTy(ty) THEN (IF v.k = "nan" THEN PyNaN ELSE PyFloat(v.n))
  ELSE IF ty.t = "?" THEN PyBool(v.n # 0)
  ELSE PyBytes(Slice(v.s, 0, ty.w))

\* RegistroType.correct_format
CorrectFormat(schema, rec) ==
  IF Len(rec) # Len(schema) THEN <<PyError>>
  ELSE Tuple([i \in 1..Len(schema) |-> ConvertValue(rec[i], schema[i])])

\* one field of struct.pack: the value the field's bytes hold
PackField(v, ty) ==
  IF ty.t = "s"
    THEN (IF v.k \in {"str", "bytes"}
            THEN PyBytes(LJustNul(Slice(v.s, 0, ty.w), ty.w))
            ELSE PyBytes(LJustNul(<<>>, ty.w)))
  ELSE IF IsIntTy(ty)
    THEN (IF v.k = "int" /\ IntFits(ty, v.n) THEN PyInt(v.n) ELSE PyError)
  ELSE IF ty.t = "f"
    THEN (IF v.k = "nan" THEN PyNaN
          ELSE IF IsNumber(v) THEN PyFloat(F32(v.n)) ELSE PyError)
  ELSE IF ty.t = "d"
    THEN (IF v.k = "nan" THEN PyNaN
          ELSE IF IsNumber(v) THEN PyFloat(v.n) ELSE PyError)
  ELSE \* "?": struct packs the truth value of any object
       PyBool(~(IsNumber(v) /\ v.n = 0))

\* RegistroType.to_bytes: the packed fields, or <<PyError>> when struct.pack raises
ToBytes(schema, rec) ==
  LET packed == Tuple([i \in 1..Len(schema) |-> PackField(rec[i], schema[i])])
  IN IF \E i \in 1..Len(schema) : packed[i].k = "error" THEN <<PyError>> ELSE packed

\* one field of RegistroType.from_bytes
UnpackField(b, ty) ==
  IF ty.t = "s" THEN PyStr(RStripNul(b.s))
  ELSE IF IsIntTy(ty) /\ PyEq(b, PyInt(INT_NULL)) THEN PyNone
  ELSE IF IsFloatTy(ty) /\ b.k = "nan" THEN PyNone
  ELSE IF ty.t = "?" /\ PyEq(b, PyInt(BYTE_NULL)) THEN PyNone
  ELSE b

\* RegistroType.from_bytes
FromBytes(schema, data) ==
  IF Len(data) < Len(schema) THEN <<PyError>>
  ELSE Tuple([i \in 1..Len(schema) |-> UnpackField(data[i], schema[i])])

\* RegistroType.get_key with the key as first field
GetKey(rec) == rec[1]


(***************************************************************************)
(* Heap File: Heap_struct/Heap.py.  The file is the 4-byte record counter  *)
(* (header) followed by the record slots.                                  *)
(***************************************************************************)
\* schema of the heap and of the sequential file: an integer key and a text
TextWidth == 2

TableFormat == <<Ty("i"), TyStr(TextWidth)>>

\* Heap.__init__ / Heap._initialize_file, and Heap.clear
HeapNew == [header |-> 0, slots |-> <<>>]

\* Heap._read_header
HeapReadHeader(h) == h.header

\* f.seek(HEADER_SIZE + i * record_size); f.write(data): slot i (0-based) of the file
WriteSlot(slots, i, data) ==
  Tuple([j \in 1..Max2(Len(slots), i + 1) |->
     IF j = i + 1 THEN data
     ELSE IF j <= Len(slots) THEN slots[j]
     ELSE <<>>])

\* Heap.insert: the new file and the position returned
HeapInsert(h, record) ==
  LET rec == CorrectFormat(TableFormat, record)
      num_records == HeapReadHeader(h)
  IN [h |-> [header |-> num_records + 1,
             slots |-> WriteSlot(h.slots, num_records, ToBytes(TableFormat, rec))],
      pos |-> num_records]

\* a slot step that advances the counter and leaves the record's bytes unwritten
InsertSlotBad(h, num_records, record) == [h EXCEPT !.header = num_records + 1]

\* the steps of Heap.insert on the file, num_records being the counter the
\* call read: the record's bytes written to slot num_records ...
InsertSlot(h, num_records, record) ==
  [h EXCEPT !.slots = WriteSlot(h.slots, num_records,
                                ToBytes(TableFormat, CorrectFormat(TableFormat, record)))]

\* a header write that adds one to the counter found in the file
InsertCountBad(h, num_records) == [h EXCEPT !.header = h.header + 1]

\* ... and then the header written with num_records + 1
InsertCount(h, num_records) == [h EXCEPT !.header = num_records + 1]

\* what a reader gets back for a record that an insert wrote
Stored(record) ==
  FromBytes(TableFormat, ToBytes(TableFormat, CorrectFormat(TableFormat, record)))

\* Heap.read: ok is FALSE when ValueError is raised
HeapReadBad(h, pos) ==
  LET num_records == HeapReadHeader(h)
  IN IF pos < 0 \/ pos >= num_records - 1 THEN [ok |-> FALSE, val |-> <<>>]
     ELSE IF pos + 1 > Len(h.slots) THEN [ok |-> FALSE, val |-> <<>>]
     ELSE [ok |-> TRUE, val |-> FromBytes(TableFormat, h.slots[pos + 1])]

HeapRead(h, pos) ==
  LET num_records == HeapReadHeader(h)
  IN IF pos < 0 \/ pos >= num_records THEN [ok |-> FALSE, val |-> <<>>]
     ELSE IF pos + 1 > Len(h.slots) THEN [ok |-> FALSE, val |-> <<>>]
     ELSE [ok |-> TRUE, val |-> FromBytes(TableFormat, h.slots[pos + 1])]

\* Heap.update: ok is FALSE when ValueError is raised, the file then unchanged
HeapUpdate(h, pos, record) ==
  LET num_records == HeapReadHeader(h)
  IN IF pos < 0 \/ pos >= num_records THEN [ok |-> FALSE, h |-> h]
     ELSE [ok |-> TRUE,
           h |-> [h EXCEPT !.slots = WriteSlot(h.slots, pos,
                    ToBytes(TableFormat, CorrectFormat(TableFormat, record)))]]

\* Heap.count
HeapCount(h) == HeapReadHeader(h)

\* Heap.scan_all
HeapScanAll(h) ==
  Tuple([i \in 1..Min2(HeapReadHeader(h), Len(h.slots)) |-> FromBytes(TableFormat, h.slots[i])])


(***************************************************************************)
(* Sequential File: Sequential_Struct/sequential_file.py.  The index file  *)
(* is the header (pos_root, num_data, num_aux) followed by the index       *)
(* entries (key, pos, next); the rows live in a Heap.  Index keys are      *)
(* integers other than the NULL sentinel.                                  *)
(*                                                                         *)
(* An operation ends "ok", or "raise" (an exception leaves it), or "hang"  *)
(* (a walk of next pointers that never reaches -1).                        *)
(***************************************************************************)
\* max_aux_size when the caller gives none
DefaultMaxAux == 100

\* SequentialFile.__init__ / _initialize_files
SeqNew(max_aux_size) ==
  [root |-> -1, ndata |-> 0, naux |-> 0, idx |-> <<>>,
   heap |-> HeapNew, max_aux |-> max_aux_size]

\* SequentialFile.__init__ on files that exist (force_create False): the files
\* are kept, max_aux_size is the caller's
SeqOpen(s, max_aux_size) == [s EXCEPT !.max_aux = max_aux_size]

IndexRecord(key, pos, next) == [key |-> key, pos |-> pos, next |-> next]

\* can _read_index(pos) read an entry: seek fails below 0, unpack fails past the end
ValidPos(s, pos) == pos >= 0 /\ pos < Len(s.idx)

\* SequentialFile._read_index
ReadIndex(s, pos) == s.idx[pos + 1]

\* SequentialFile._write_index
WriteIndex(s, pos, rec) == [s EXCEPT !.idx = WriteSlot(s.idx, pos, rec)]

\* SequentialFile._append_index: the entry goes to position num_data + num_aux
AppendIndex(s, rec) ==
  [s |-> [WriteIndex(s, s.ndata + s.naux, rec) EXCEPT !.naux = s.naux + 1],
   new_pos |-> s.ndata + s.naux]

\* the two backward scans of _binary_search_prev: the last live entry at or
\* below p whose key is smaller, else pos_root
RECURSIVE ScanBack(_, _, _)
ScanBack(s, p, key) ==
  IF p < 0 THEN s.root
  ELSE IF ~ValidPos(s, p) THEN -3
  ELSE IF ReadIndex(s, p).next # -2 /\ ReadIndex(s, p).key < key THEN p
  ELSE ScanBack(s, p - 1, key)

\* the while loop of _binary_search_prev
RECURSIVE BinaryLoop(_, _, _, _, _)
BinaryLoop(s, key, left, right, prev_pos) ==
  IF left > right THEN ScanBack(s, prev_pos, key)
  ELSE LET mid == (left + right) \div 2
       IN IF ~ValidPos(s, mid) THEN -3
          ELSE LET rec == ReadIndex(s, mid)
               IN IF rec.next = -2
                    THEN (IF mid > 0
                            THEN BinaryLoop(s, key, left, mid - 1, prev_pos)
                            ELSE BinaryLoop(s, key, mid + 1, right, prev_pos))
                  ELSE IF rec.key = key THEN ScanBack(s, mid - 1, key)
                  ELSE IF rec.key < key
                    THEN BinaryLoop(s, key, mid + 1, right, mid)
                  ELSE BinaryLoop(s, key, left, mid - 1, prev_pos)

\* SequentialFile._binary_search_prev: a position, or -3 when a read raises
BinarySearchPrevBad(s, key) ==
  IF s.root = -1 THEN -1
  ELSE IF s.ndata = 0 THEN s.root
  ELSE IF ~ValidPos(s, s.root) THEN -3
  ELSE IF key <= ReadIndex(s, s.root).key THEN s.root
  ELSE s.ndata - 1

BinarySearchPrev(s, key) ==
  IF s.root = -1 THEN -1
  ELSE IF s.ndata = 0 THEN s.root
  ELSE IF ~ValidPos(s, s.root) THEN -3
  ELSE IF key <= ReadIndex(s, s.root).key THEN s.root
  ELSE BinaryLoop(s, key, 0, s.ndata - 1, s.root)

\* the while loop of _linear_search; fuel is the number of entries it may still visit
RECURSIVE LinearLoop(_, _, _, _, _)
LinearLoop(s, key, prev_pos, current_pos, fuel) ==
  IF current_pos = -1 THEN [st |-> "ok", prev |-> prev_pos, cur |-> -1]
  ELSE IF fuel = 0 THEN [st |-> "hang", prev |-> -1, cur |-> -1]
  ELSE IF ~ValidPos(s, current_pos) THEN [st |-> "raise", prev |-> -1, cur |-> -1]
  ELSE LET rec == ReadIndex(s, current_pos)
       IN IF rec.next = -2 THEN [st |-> "ok", prev |-> prev_pos, cur |-> -1]
          ELSE IF rec.key = key THEN [st |-> "ok", prev |-> prev_pos, cur |-> current_pos]
          ELSE IF rec.key > key THEN [st |-> "ok", prev |-> prev_pos, cur |-> -1]
          ELSE LinearLoop(s, key, current_pos, rec.next, fuel - 1)

\* SequentialFile._linear_search, for a start_pos that _binary_search_prev gave
LinearSearch(s, key, start_pos) ==
  IF start_pos = -3 THEN [st |-> "raise", prev |-> -1, cur |-> -1]
  ELSE IF start_pos = -1 THEN [st |-> "ok", prev |-> -1, cur |-> -1]
  ELSE IF start_pos = s.root
    THEN (IF ~ValidPos(s, s.root) THEN [st |-> "raise", prev |-> -1, cur |-> -1]
          ELSE LET root == ReadIndex(s, s.root)
               IN IF root.key = key THEN [st |-> "ok", prev |-> -1, cur |-> s.root]
                  ELSE IF root.key > key THEN [st |-> "ok", prev |-> -1, cur |-> -1]
                  ELSE LinearLoop(s, key, s.root, root.next, Len(s.idx) + 1))
  ELSE LinearLoop(s, key, -1, start_pos, Len(s.idx) + 1)

\* the chain walked from a position, as scan_all and _reconstruct walk it: the
\* entries met (tombstones included), and how the walk ends
RECURSIVE ChainFrom(_, _, _)
ChainFrom(s, current_pos, fuel) ==
  IF current_pos = -1 THEN [st |-> "ok", recs |-> <<>>]
  ELSE IF fuel = 0 THEN [st |-> "hang", recs |-> <<>>]
  ELSE IF ~ValidPos(s, current_pos) THEN [st |-> "raise", recs |-> <<>>]
  ELSE LET rec == ReadIndex(s, current_pos)
           rest == ChainFrom(s, rec.next, fuel - 1)
       IN [st |-> rest.st, recs |-> <<rec>> \o rest.recs]

Chain(s) ==
  IF s.root = -1 THEN [st |-> "ok", recs |-> <<>>]
  ELSE ChainFrom(s, s.root, Len(s.idx) + 1)

IsLive(rec) == rec.next # -2

\* int(math.sqrt(n) + 0.5)
RoundSqrt(n) == CHOOSE r \in 0..(n + 1) : (2 * r - 1) * (2 * r - 1) <= 4 * n /\ 4 * n < (2 * r + 1) * (2 * r + 1)

\* SequentialFile._reconstruct
ReconstructBad(s) ==
  IF s.root = -1 THEN [st |-> "ok", s |-> s]
  ELSE LET c == Chain(s)
           valid == SelectSeq(c.recs, IsLive)
           n == Len(valid)
       IN IF c.st # "ok" THEN [st |-> c.st, s |-> s]
          ELSE [st |-> "ok",
                s |-> [s EXCEPT !.root = 0, !.ndata = n, !.naux = 0,
                          !.idx = Tuple([i \in 1..n |-> [valid[n + 1 - i] EXCEPT
                                       !.next = IF i < n THEN i ELSE -1]]),
                          !.max_aux = Max2(10, RoundSqrt(n))]]

Reconstruct(s) ==
  IF s.root = -1 THEN [st |-> "ok", s |-> s]
  ELSE LET c == Chain(s)
           valid == SelectSeq(c.recs, IsLive)
           n == Len(valid)
       IN IF c.st # "ok" THEN [st |-> c.st, s |-> s]
          ELSE [st |-> "ok",
                s |-> [s EXCEPT !.root = 0, !.ndata = n, !.naux = 0,
                          !.idx = Tuple([i \in 1..n |-> [valid[i] EXCEPT
                                       !.next = IF i < n THEN i ELSE -1]]),
                          !.max_aux = Max2(10, RoundSqrt(n))]]

\* the end of insert: reconstruction once num_aux reaches max_aux_size;
\* recon is the number of runs of _reconstruct that were completed
CheckThreshold(s) ==
  IF s.naux >= s.max_aux
    THEN LET r == Reconstruct(s)
         IN [st |-> r.st, s |-> r.s, ret |-> r.st = "ok",
             recon |-> IF r.st = "ok" THEN 1 ELSE 0]
    ELSE [st |-> "ok", s |-> s, ret |-> TRUE, recon |-> 0]

\* SequentialFile.insert: the new file, the value returned and the number of
\* runs of _reconstruct in the call
SeqInsert(s, record) ==
  LET rec == CorrectFormat(TableFormat, record)
      key == GetKey(rec).n
  IN IF s.root = -1
       THEN \* index empty: the entry becomes the root, header (new_pos, 0, 1)
            LET h == HeapInsert(s.heap, rec)
                a == AppendIndex([s EXCEPT !.heap = h.h], IndexRecord(key, h.pos, -1))
            IN [st |-> "ok", ret |-> TRUE, recon |-> 0,
                s |-> [a.s EXCEPT !.root = a.new_pos, !.ndata = 0, !.naux = 1]]
     ELSE LET f == LinearSearch(s, key, BinarySearchPrev(s, key))
          IN IF f.st # "ok" THEN [st |-> f.st, ret |-> FALSE, recon |-> 0, s |-> s]
             ELSE IF f.cur # -1 THEN [st |-> "ok", ret |-> FALSE, recon |-> 0, s |-> s]
             ELSE LET h == HeapInsert(s.heap, rec)
                      s1 == [s EXCEPT !.heap = h.h]
                  IN IF f.prev = -1
                       THEN \* new root; the header keeps num_data, num_aux + 1
                            LET a == AppendIndex(s1, IndexRecord(key, h.pos, s.root))
                            IN CheckThreshold([a.s EXCEPT !.root = a.new_pos,
                                                 !.ndata = s.ndata, !.naux = s.naux + 1])
                     ELSE IF ~ValidPos(s, f.prev)
                            THEN [st |-> "raise", ret |-> FALSE, recon |-> 0, s |-> s1]
                     ELSE LET prev_index == ReadIndex(s, f.prev)
                              a == AppendIndex(s1, IndexRecord(key, h.pos, prev_index.next))
                          IN CheckThreshold(
                               WriteIndex(a.s, f.prev, [prev_index EXCEPT !.next = a.new_pos]))

\* the rows of the live entries of a walk, read from the heap
RowsOf(s, recs) ==
  LET live == SelectSeq(recs, IsLive)
  IN Tuple([i \in 1..Len(live) |-> HeapRead(s.heap, live[i].pos)])

\* SequentialFile.scan_all
SeqScanAll(s) ==
  LET c == Chain(s)
      rows == RowsOf(s, c.recs)
  IN IF c.st # "ok" THEN [st |-> c.st, rows |-> <<>>]
     ELSE IF \E i \in 1..Len(rows) : ~rows[i].ok THEN [st |-> "raise", rows |-> <<>>]
     ELSE [st |-> "ok", rows |-> Tuple([i \in 1..Len(rows) |-> rows[i].val])]

\* SequentialFile.search: found is FALSE for None
SeqSearch(s, key) ==
  IF s.root = -1 THEN [st |-> "ok", found |-> FALSE, row |-> <<>>]
  ELSE LET f == LinearSearch(s, key, BinarySearchPrev(s, key))
       IN IF f.st # "ok" THEN [st |-> f.st, found |-> FALSE, row |-> <<>>]
          ELSE IF f.cur = -1 THEN [st |-> "ok", found |-> FALSE, row |-> <<>>]
          ELSE IF ReadIndex(s, f.cur).next = -2 THEN [st |-> "ok", found |-> FALSE, row |-> <<>>]
          ELSE LET r == HeapRead(s.heap, ReadIndex(s, f.cur).pos)
               IN IF r.ok THEN [st |-> "ok", found |-> TRUE, row |-> r.val]
                  ELSE [st |-> "raise", found |-> FALSE, row |-> <<>>]

\* the while loop of search_range
RECURSIVE RangeLoop(_, _, _, _, _)
RangeLoop(s, current_pos, key_begin, key_end, fuel) ==
  IF current_pos = -1 THEN [st |-> "ok", rows |-> <<>>]
  ELSE IF fuel = 0 THEN [st |-> "hang", rows |-> <<>>]
  ELSE IF ~ValidPos(s, current_pos) THEN [st |-> "raise", rows |-> <<>>]
  ELSE LET rec == ReadIndex(s, current_pos)
       IN IF rec.key > key_end THEN [st |-> "ok", rows |-> <<>>]
          ELSE LET rest == RangeLoop(s, rec.next, key_begin, key_end, fuel - 1)
                   take == rec.key >= key_begin /\ rec.key <= key_end /\ rec.next # -2
                   r == HeapRead(s.heap, rec.pos)
               IN IF take /\ ~r.ok THEN [st |-> "raise", rows |-> <<>>]
                  ELSE [st |-> rest.st,
                        rows |-> (IF take THEN <<r.val>> ELSE <<>>) \o rest.rows]

\* SequentialFile.search_range
SeqSearchRange(s, key_begin, key_end) ==
  IF key_begin > key_end THEN [st |-> "ok", rows |-> <<>>]
  ELSE IF s.root = -1 THEN [st |-> "ok", rows |-> <<>>]
  ELSE LET prev_pos == BinarySearchPrev(s, key_begin)
           f == LinearSearch(s, key_begin, prev_pos)
           start_pos == IF f.cur # -1 THEN f.cur
                        ELSE IF prev_pos # -1 THEN prev_pos ELSE s.root
           w == RangeLoop(s, start_pos, key_begin, key_end, Len(s.idx) + 1)
       IN IF f.st # "ok" THEN [st |-> f.st, rows |-> <<>>]
          ELSE IF w.st # "ok" THEN [st |-> w.st, rows |-> <<>>]
          ELSE w

\* SequentialFile.delete
SeqDelete(s, key) ==
  IF s.root = -1 THEN [st |-> "ok", ret |-> FALSE, s |-> s]
  ELSE LET f == LinearSearch(s, key, BinarySearchPrev(s, key))
       IN IF f.st # "ok" THEN [st |-> f.st, ret |-> FALSE, s |-> s]
          ELSE IF f.cur = -1 THEN [st |-> "ok", ret |-> FALSE, s |-> s]
          ELSE LET index_to_delete == ReadIndex(s, f.cur)
                   s1 == IF f.prev = -1
                           THEN [s EXCEPT !.root = index_to_delete.next]
                           ELSE WriteIndex(s, f.prev,
                                  [ReadIndex(s, f.prev) EXCEPT !.next = index_to_delete.next])
               IN [st |-> "ok", ret |-> TRUE,
                   s |-> WriteIndex(s1, f.cur, [index_to_delete EXCEPT !.next = -2])]

(***************************************************************************)
(* Page-based ISAM: ISAM.py (ISAMFile).  The data file is a sequence of    *)
(* pages (records, next_page), page numbers from 0; the index file holds   *)
(* the leaf entries (max key, page) and the root entries (max key, first   *)
(* leaf of the block).  A record is its id.                                *)
(***************************************************************************)
BLOCK_FACTOR == 3

INDEX_BLOCK_FACTOR == 3

\* ISAMFile.__init__ with no files on disk
IsamNew == [exists |-> FALSE, pages |-> <<>>, leaf |-> <<>>, root |-> <<>>]

DataPage(records, next_page) == [records |-> records, next |-> next_page]

\* DataPage.has_space
HasSpace(page) == Len(page.records) < BLOCK_FACTOR

\* max(r.id for r in records)
MaxOf(records) == CHOOSE m \in Range(records) : \A x \in Range(records) : x <= m

\* ISAMFile._read_page
ReadPage(f, page_no) == f.pages[page_no + 1]

\* ISAMFile._write_page
WritePage(f, page_no, page) == [f EXCEPT !.pages = WriteSlot(f.pages, page_no, page)]

\* ISAMFile._first_ge_index (0-based; len(keys) when no key is >= key)
FirstGeIndex(keys, key) ==
  IF \E i \in 1..Len(keys) : keys[i] >= key
    THEN (CHOOSE i \in 1..Len(keys) :
            keys[i] >= key /\ \A j \in 1..(i - 1) : keys[j] < key) - 1
    ELSE Len(keys)

\* the leaf entries of build_index: pages up to the first empty one
RECURSIVE LeafEntries(_, _)
LeafEntries(pages, i) ==
  IF i >= Len(pages) \/ Len(pages[i + 1].records) = 0 THEN <<>>
  ELSE <<[mx |-> MaxOf(pages[i + 1].records), pno |-> i]>> \o LeafEntries(pages, i + 1)

\* the root entries of build_index: one per block of INDEX_BLOCK_FACTOR leaves
RootEntries(leaf) ==
  Tuple([g \in 1..((Len(leaf) + INDEX_BLOCK_FACTOR - 1) \div INDEX_BLOCK_FACTOR) |->
     LET i == (g - 1) * INDEX_BLOCK_FACTOR
         bloque == Slice(leaf, i, i + INDEX_BLOCK_FACTOR)
     IN [mx |-> bloque[Len(bloque)].mx, start |-> i]])

\* ISAMFile.build_index
BuildIndex(f) ==
  IF ~f.exists THEN [f EXCEPT !.leaf = <<>>, !.root = <<>>]
  ELSE LET leaf == LeafEntries(f.pages, 0)
       IN [f EXCEPT !.leaf = leaf, !.root = RootEntries(leaf)]

\* ISAMFile._root_find_block: -1 for None
RootFindBlock(f, key) ==
  IF f.root = <<>> THEN -1
  ELSE LET i == FirstGeIndex(Tuple([g \in 1..Len(f.root) |-> f.root[g].mx]), key)
       IN IF i < Len(f.root) THEN f.root[i + 1].start ELSE -1

\* ISAMFile._leaf_find_primary
LeafFindPrimary(f, start_idx, key) ==
  LET sub == Slice(f.leaf, start_idx, start_idx + INDEX_BLOCK_FACTOR)
      j == FirstGeIndex(Tuple([g \in 1..Len(sub) |-> sub[g].mx]), key)
  IN IF sub = <<>> THEN -1
     ELSE IF j < Len(sub) THEN sub[j + 1].pno ELSE sub[Len(sub)].pno

\* ISAMFile._find_primary_page_for_key: -1 for None
FindPrimaryPageForKey(f, key) ==
  IF f.leaf = <<>> THEN -1
  ELSE LET start == RootFindBlock(f, key)
       IN IF start = -1 THEN f.leaf[Len(f.leaf)].pno
          ELSE LeafFindPrimary(f, start, key)

\* sorted(records, key=id)
SortIds(records) == SortSeq(records, LAMBDA a, b : a < b)

\* ISAMFile.build_from_records
IsamBuildFromRecords(f, records) ==
  LET recs == SortIds(records)
      n == (Len(recs) + BLOCK_FACTOR - 1) \div BLOCK_FACTOR
      pages == Tuple([g \in 1..n |->
                  DataPage(Slice(recs, (g - 1) * BLOCK_FACTOR, g * BLOCK_FACTOR), -1)])
  IN BuildIndex([f EXCEPT !.exists = TRUE, !.pages = pages])

\* the position add gives a record in a primary page with space
SortedPos(ids, id) ==
  IF \E i \in 1..Len(ids) : id <= ids[i]
    THEN (CHOOSE i \in 1..Len(ids) : id <= ids[i] /\ \A j \in 1..(i - 1) : id > ids[j]) - 1
    ELSE Len(ids)

\* the overflow walk of add: the record goes to the first chained page with
\* space, else to a new page linked after the last page of the chain
RECURSIVE AddToChain(_, _, _, _)
AddToChain(f, prev, curr, id) ==
  IF curr # -1
    THEN LET p == ReadPage(f, curr)
         IN IF HasSpace(p)
              THEN WritePage(f, curr, [p EXCEPT !.records = p.records \o <<id>>])
              ELSE AddToChain(f, curr, p.next, id)
    ELSE LET new_no == Len(f.pages)
             f1 == WritePage(f, new_no, DataPage(<<id>>, -1))
         IN WritePage(f1, prev, [ReadPage(f1, prev) EXCEPT !.next = new_no])

\* ISAMFile.add
IsamAdd(f, id) ==
  IF ~f.exists \/ FindPrimaryPageForKey(f, id) = -1
    THEN BuildIndex([f EXCEPT !.exists = TRUE, !.pages = <<DataPage(<<id>>, -1)>>])
  ELSE LET target_page == FindPrimaryPageForKey(f, id)
           page == ReadPage(f, target_page)
       IN IF HasSpace(page)
            THEN WritePage(f, target_page,
                   [page EXCEPT !.records = InsertAt(page.records, SortedPos(page.records, id), id)])
            ELSE AddToChain(f, target_page, page.next, id)

\* the records of an overflow chain, in chain order
RECURSIVE ChainRecords(_, _)
ChainRecords(f, ov) ==
  IF ov = -1 THEN <<>>
  ELSE ReadPage(f, ov).records \o ChainRecords(f, ReadPage(f, ov).next)

\* the loop over a primary page's records in range_search: the records taken,
\* and whether a record above `end` made the search return
RECURSIVE TakeInRange(_, _, _)
TakeInRange(records, start, end) ==
  IF records = <<>> THEN [res |-> <<>>, stop |-> FALSE]
  ELSE IF start <= Head(records) /\ Head(records) <= end
    THEN LET r == TakeInRange(Tail(records), start, end)
         IN [res |-> <<Head(records)>> \o r.res, stop |-> r.stop]
  ELSE IF Head(records) > end THEN [res |-> <<>>, stop |-> TRUE]
  ELSE TakeInRange(Tail(records), start, end)

\* the while p < total loop of range_search
RECURSIVE RangeFromPage(_, _, _, _)
RangeFromPage(f, p, start, end) ==
  IF p >= Len(f.leaf) THEN <<>>
  ELSE LET page == ReadPage(f, p)
           t == TakeInRange(page.records, start, end)
       IN IF t.stop THEN t.res
          ELSE t.res
               \o SelectSeq(ChainRecords(f, page.next), LAMBDA x : start <= x /\ x <= end)
               \o RangeFromPage(f, p + 1, start, end)

\* ISAMFile.range_search
IsamRangeSearch(f, a, b) ==
  LET start == Min2(a, b)
      end == Max2(a, b)
      start_page == FindPrimaryPageForKey(f, start)
  IN IF ~f.exists \/ start_page = -1 THEN <<>>
     ELSE RangeFromPage(f, start_page, start, end)

\* the loop over the primary page's records in search: stops above key
RECURSIVE TakeEqual(_, _)
TakeEqual(records, key) ==
  IF records = <<>> THEN <<>>
  ELSE IF Head(records) = key THEN <<key>> \o TakeEqual(Tail(records), key)
  ELSE IF Head(records) > key THEN <<>>
  ELSE TakeEqual(Tail(records), key)

\* ISAMFile.search
IsamSearch(f, key) ==
  LET page_no == FindPrimaryPageForKey(f, key)
  IN IF ~f.exists \/ page_no = -1 THEN <<>>
     ELSE TakeEqual(ReadPage(f, page_no).records, key)
          \o SelectSeq(ChainRecords(f, ReadPage(f, page_no).next), LAMBDA x : x = key)

\* the number of records in a list of pages
RECURSIVE TotalRecords(_)
TotalRecords(pages) ==
  IF pages = <<>> THEN 0 ELSE Len(Head(pages).records) + TotalRecords(Tail(pages))

\* the pages of a chain, from a page number on
RECURSIVE ChainPages(_, _)
ChainPages(f, pno) ==
  IF pno = -1 THEN <<>> ELSE <<pno>> \o ChainPages(f, ReadPage(f, pno).next)

\* ISAMFile.remove: the new file and the number of records removed
IsamRemove(f, key) ==
  LET page_no == FindPrimaryPageForKey(f, key)
  IN IF ~f.exists \/ page_no = -1 THEN [f |-> f, removed |-> 0]
     ELSE LET touched == Range(ChainPages(f, page_no))
              keep(records) == SelectSeq(records, LAMBDA x : x # key)
              pages == Tuple([i \in 1..Len(f.pages) |->
                          IF (i - 1) \in touched
                            THEN [f.pages[i] EXCEPT !.records = keep(f.pages[i].records)]
                            ELSE f.pages[i]])
          IN [f |-> [f EXCEPT !.pages = pages],
              removed |-> TotalRecords(f.pages) - TotalRecords(pages)]

(***************************************************************************)
(* ISAMIndex (src/ISAM/ISAM.py): primary buckets, one overflow list per    *)
(* bucket, a three-level directory and a heap of rows.  A heap offset is   *)
(* the row's position in the heap file, overflow is kept as one list per   *)
(* bucket (an absent dictionary entry is the empty list).                  *)
(***************************************************************************)
\* stands for 2**63-1, the "infinite" directory key of an empty bucket
Infinity == 2147483647

DefaultBlockFactor == 4

DefaultRootFactor == 8

DefaultSuperFactor == 8

\* ISAMIndex.__init__ on a path with no index file, through _init_empty
IxNew(bf, rf, sfac) ==
  [block_factor |-> bf, root_factor |-> rf, super_factor |-> sfac,
   leaves |-> << <<>> >>, dir_keys |-> <<>>, overflow |-> << <<>> >>,
   root |-> <<>>, super_root |-> <<>>, heap |-> <<>>]

\* _heap_append: the row goes to the end of the heap, its offset is returned
HeapAppend(x, row) == [x EXCEPT !.heap = @ \o <<row>>]

\* _heap_read_at
HeapReadAt(x, off) == x.heap[off + 1]

\* the largest element of a non-empty sequence of numbers
RECURSIVE SeqMax(_)
SeqMax(s) == IF Len(s) = 1 THEN s[1] ELSE Max2(s[1], SeqMax(Tail(s)))

\* start offsets 0, f, 2f, ... of the groups of f among n entries
GroupStarts(n, f) == Tuple([g \in 1..((n + f - 1) \div f) |-> (g - 1) * f])

\* _rebuild_directories: dir_keys, root and super_root from the buckets
RebuildDirectories(x) ==
  LET n == Len(x.leaves)
      dk == Tuple([i \in 1..n |-> IF x.leaves[i] # <<>> THEN x.leaves[i][1].key ELSE Infinity])
      leaf_max == Tuple([i \in 1..n |->
                     IF x.leaves[i] # <<>> THEN x.leaves[i][Len(x.leaves[i])].key
                     ELSE Infinity])
      rs == GroupStarts(n, x.root_factor)
      rt == Tuple([g \in 1..Len(rs) |->
               [mx |-> SeqMax(Slice(leaf_max, rs[g], rs[g] + x.root_factor)),
                start |-> rs[g]]])
      rmx == Tuple([g \in 1..Len(rt) |-> rt[g].mx])
      ss == GroupStarts(Len(rt), x.super_factor)
      sr == Tuple([g \in 1..Len(ss) |->
               [mx |-> SeqMax(Slice(rmx, ss[g], ss[g] + x.super_factor)),
                start |-> ss[g]]])
  IN [x EXCEPT !.dir_keys = dk, !.root = rt, !.super_root = sr]

\* bisect.bisect_right(a, v): the binary search itself, whatever the order of a
RECURSIVE BisectLoop(_, _, _, _)
BisectLoop(a, v, lo, hi) ==
  IF lo >= hi THEN lo
  ELSE LET mid == (lo + hi) \div 2
       IN IF v < a[mid + 1] THEN BisectLoop(a, v, lo, mid)
          ELSE BisectLoop(a, v, mid + 1, hi)

BisectRight(a, v) == BisectLoop(a, v, 0, Len(a))

\* _leaf_index_for_key (bucket numbers count from 0)
LeafIndexForKey(x, key) ==
  IF x.dir_keys = <<>> THEN 0
  ELSE LET idx == BisectRight(x.dir_keys, key) - 1
           lo == IF idx < 0 THEN 0 ELSE idx
       IN IF lo >= Len(x.leaves) THEN Len(x.leaves) - 1 ELSE lo

\* the insertion point of add: past the leading entries with key <= the new one
RECURSIVE SkipLE(_, _, _)
SkipLE(s, key, i) ==
  IF i < Len(s) /\ s[i + 1].key <= key THEN SkipLE(s, key, i + 1) ELSE i

\* ISAMIndex.add
IxAdd(x, key, row) ==
  LET off == Len(x.heap)
      x1 == HeapAppend(x, row)
      bi == LeafIndexForKey(x1, key)
      bucket == x1.leaves[bi + 1]
      e == [key |-> key, off |-> off]
  IN IF Len(bucket) < x1.block_factor
     THEN LET x2 == [x1 EXCEPT !.leaves[bi + 1] = InsertAt(bucket, SkipLE(bucket, key, 0), e)]
          IN IF x2.dir_keys = <<>>
             THEN RebuildDirectories(
                    [x2 EXCEPT !.dir_keys = <<key>> \o Tuple([i \in 1..(Len(x2.leaves) - 1) |-> Infinity])])
             ELSE IF key < x2.dir_keys[bi + 1]
                  THEN RebuildDirectories([x2 EXCEPT !.dir_keys[bi + 1] = key])
                  ELSE x2
     ELSE LET of == x1.overflow[bi + 1]
          IN [x1 EXCEPT !.overflow[bi + 1] = InsertAt(of, SkipLE(of, key, 0), e)]

\* the rows of a list of entries, read from the heap in order
RowsAt(x, s) == Tuple([i \in 1..Len(s) |-> HeapReadAt(x, s[i].off)])

\* ISAMIndex.search
IxSearch(x, key) ==
  LET bi == LeafIndexForKey(x, key)
  IN RowsAt(x, SelectSeq(x.leaves[bi + 1], LAMBDA en : en.key = key))
     \o RowsAt(x, SelectSeq(x.overflow[bi + 1], LAMBDA en : en.key = key))

\* the entries of buckets bi..last, each bucket followed by its overflow list
RECURSIVE EntriesOfBuckets(_, _, _)
EntriesOfBuckets(x, bi, last) ==
  IF bi > last THEN <<>>
  ELSE x.leaves[bi + 1] \o x.overflow[bi + 1] \o EntriesOfBuckets(x, bi + 1, last)

\* ISAMIndex.range_search
IxRangeSearch(x, begin_key, end_key) ==
  LET b == Min2(begin_key, end_key)
      e == Max2(begin_key, end_key)
      start_bi == LeafIndexForKey(x, b)
      raw == IF x.dir_keys # <<>> THEN BisectRight(x.dir_keys, e) - 1 ELSE Len(x.leaves) - 1
      lo == IF raw < 0 THEN 0 ELSE raw
      last_idx == IF lo >= Len(x.leaves) THEN Len(x.leaves) - 1 ELSE lo
  IN RowsAt(x, SelectSeq(EntriesOfBuckets(x, start_bi, last_idx),
                         LAMBDA en : b <= en.key /\ en.key <= e))

\* ISAMIndex.remove: the index afterwards and the number of entries removed
IxRemove(x, key) ==
  LET bi == LeafIndexForKey(x, key)
      leaf == SelectSeq(x.leaves[bi + 1], LAMBDA e : e.key # key)
      of == SelectSeq(x.overflow[bi + 1], LAMBDA e : e.key # key)
      removed == (Len(x.leaves[bi + 1]) - Len(leaf)) + (Len(x.overflow[bi + 1]) - Len(of))
      x1 == [x EXCEPT !.leaves[bi + 1] = leaf, !.overflow[bi + 1] = of]
      new_min == IF leaf # <<>> THEN leaf[1].key ELSE Infinity
  IN [x |-> IF x1.dir_keys # <<>> /\ x1.dir_keys[bi + 1] # new_min
            THEN RebuildDirectories([x1 EXCEPT !.dir_keys[bi + 1] = new_min])
            ELSE x1,
      removed |-> removed]

\* ISAMIndex.get_all
IxGetAll(x) == RowsAt(x, EntriesOfBuckets(x, 0, Len(x.leaves) - 1))

\* sorted(items, key=...): a stable sort by key
RECURSIVE StableSort(_)
StableSort(items) ==
  IF items = <<>> THEN <<>>
  ELSE LET init == StableSort(SubSeq(items, 1, Len(items) - 1))
           last == items[Len(items)]
       IN InsertAt(init, SkipLE(init, last.key, 0), last)

\* the buckets build_from_records cuts from the sorted entries
RECURSIVE CutBuckets(_, _)
CutBuckets(es, bf) ==
  IF Len(es) >= bf THEN <<Slice(es, 0, bf)>> \o CutBuckets(Slice(es, bf, Len(es)), bf)
  ELSE IF es # <<>> THEN <<es>> ELSE <<>>

\* ISAMIndex.build_from_records
IxBuildFromRecords(x, items) ==
  LET sorted == StableSort(items)
      es == Tuple([i \in 1..Len(sorted) |-> [key |-> sorted[i].key, off |-> i - 1]])
      cut == CutBuckets(es, x.block_factor)
      leaves == IF cut = <<>> THEN << <<>> >> ELSE cut
  IN RebuildDirectories(
       [x EXCEPT !.heap = Tuple([i \in 1..Len(sorted) |-> sorted[i].row]),
                 !.leaves = leaves,
                 !.overflow = Tuple([i \in 1..Len(leaves) |-> <<>>])])

\* ISAMIndex.clear: the heap file removed, the index as _init_empty leaves it
IxClear(x) == IxNew(x.block_factor, x.root_factor, x.super_factor)

(***************************************************************************)
(* DiskExtendibleHashing (src/extendible_hashing/extendible_hashing.py):   *)
(* the attributes of the table object and the bucket files on disk,        *)
(* buckets[id + 1] being the file bucket_<id>.bin.  Both classes name      *)
(* their initialiser _init_ and define no __init__, so a call of either    *)
(* class with arguments raises TypeError.  An operator gives st, "ok" or   *)
(* the exception raised, with the table as the call leaves it.             *)
(***************************************************************************)
DefaultBucketCapacity == 4

DefaultInitialDepth == 1

DefaultMaxDepth == 4

\* md5_bits: the low eight bits of the MD5 digest of the keys used here, as a
\* number (md5("A") ends in 0x29, md5("B") in 0x71, ...)
Md5Tail == [A |-> 41, B |-> 113, C |-> 87, D |-> 181, E |-> 218, F |-> 18]

\* no table object
EhNone ==
  [made |-> FALSE, bucket_capacity |-> 0, global_depth |-> 0, max_global_depth |-> 0,
   next_bucket_id |-> 0, directory |-> <<>>, buckets |-> <<>>]

\* DiskBucket(path, capacity, local_depth, is_overflow, next_bucket_id): the
\* class takes no arguments; nothing is written
DiskBucket(local_depth, is_overflow, next_bucket_id) == "TypeError"

\* _new_bucket_id: next_bucket_id is returned and advanced
NewBucketId(e) == [e EXCEPT !.next_bucket_id = @ + 1]

\* _create_bucket_file: the bucket is constructed, then saved; the
\* construction raises and no file is written
CreateBucketFile(e, bucket_id, local_depth, is_overflow, next_bucket_id) ==
  [st |-> DiskBucket(local_depth, is_overflow, next_bucket_id), e |-> e]

\* _load_bucket: a missing file is created with the global depth, an existing
\* one is read by DiskBucket(path, capacity)
LoadBucket(e, bid) ==
  IF bid + 1 > Len(e.buckets) THEN CreateBucketFile(e, bid, e.global_depth, FALSE, 0)
  ELSE [st |-> DiskBucket(1, FALSE, 0), e |-> e]

\* DiskExtendibleHashing(dir_path, bucket_capacity, initial_global_depth,
\* max_global_depth): the class takes no arguments, no object is made
EhNew(bucket_capacity, initial_global_depth, max_global_depth) ==
  [st |-> "TypeError", e |-> EhNone]

\* _init_ called on an object made without arguments, on a directory with no
\* directory.dat: the loop over the 2^depth buckets takes the first id, puts
\* it in the directory and creates its file; _save_directory follows the loop
Init_(bucket_capacity, initial_global_depth, max_global_depth) ==
  LET e0 == [made |-> TRUE, bucket_capacity |-> bucket_capacity,
             global_depth |-> initial_global_depth,
             max_global_depth |-> max_global_depth, next_bucket_id |-> 0,
             directory |-> <<>>, buckets |-> <<>>]
      e1 == [NewBucketId(e0) EXCEPT !.directory = @ \o <<e0.next_bucket_id>>]
  IN CreateBucketFile(e1, e0.next_bucket_id,
       IF initial_global_depth > 1 THEN initial_global_depth ELSE 1, FALSE, 0)

\* _get_index: the last global_depth bits of the digest
GetIndex(e, key) ==
  IF e.global_depth > 0 THEN Md5Tail[key] % Pow2(e.global_depth) ELSE 0

\* self.directory[idx]: IndexError past the end of the list
HasSlot(e, key) == GetIndex(e, key) < Len(e.directory)

\* DiskExtendibleHashing.search; 0 stands for None.  The walk "while bid != 0"
\* loads no bucket when the slot names bucket 0
EhSearch(e, key) ==
  IF ~HasSlot(e, key) THEN [st |-> "IndexError", val |-> 0]
  ELSE IF e.directory[GetIndex(e, key) + 1] = 0 THEN [st |-> "ok", val |-> 0]
  ELSE [st |-> LoadBucket(e, e.directory[GetIndex(e, key) + 1]).st, val |-> 0]

\* DiskExtendibleHashing.add: the bucket of the slot is loaded first
EhAdd(e, key, value) ==
  IF ~HasSlot(e, key) THEN [st |-> "IndexError", e |-> e]
  ELSE [st |-> LoadBucket(e, e.directory[GetIndex(e, key) + 1]).st, e |-> e]

\* DiskExtendibleHashing.remove: the table afterwards and the value returned
EhRemove(e, key) ==
  IF ~HasSlot(e, key) THEN [st |-> "IndexError", e |-> e, removed |-> FALSE]
  ELSE IF e.directory[GetIndex(e, key) + 1] = 0 THEN [st |-> "ok", e |-> e, removed |-> FALSE]
  ELSE [st |-> LoadBucket(e, e.directory[GetIndex(e, key) + 1]).st, e |-> e, removed |-> FALSE]

(***************************************************************************)
(* BPlusTree (src/b_plus_tree/bplustree.py): nodes[id + 1] is the file     *)
(* node_<id>.json; a leaf's keys are (key, ref) pairs, an internal node's  *)
(* are separator keys.                                                     *)
(***************************************************************************)
DefaultOrder == 3

\* BPlusTreeNode.__init__
BPlusTreeNode(is_leaf, block_factor) ==
  [is_leaf |-> is_leaf, block_factor |-> block_factor, keys |-> <<>>,
   children |-> <<>>, next_leaf |-> -1, size |-> 0]

\* a node that counts as full one key later
NodeIsFullBad(node) == node.size > node.block_factor + 1

\* BPlusTreeNode.is_full
NodeIsFull(node) == node.size > node.block_factor

\* BPlusTree.__init__ on an empty storage directory: the root is leaf 0
BtNew(order) ==
  [order |-> order, root_id |-> 0, nodes |-> <<BPlusTreeNode(TRUE, order)>>]

\* BPlusFile.read_node
ReadNode(t, node_id) == t.nodes[node_id + 1]

\* BPlusFile.write_node on an existing id
WriteNode(t, node, node_id) == [t EXCEPT !.nodes[node_id + 1] = node]

\* BPlusFile._get_next_node_id: one more than the largest id in use
NextNodeId(t) == Len(t.nodes)

\* BPlusFile.write_node with no id: the node gets the next id
WriteNewNode(t, node) == [t EXCEPT !.nodes = @ \o <<node>>]

\* the descent "while i < node.size and node.keys[i] < key: i += 1"
RECURSIVE ChildIndex(_, _, _)
ChildIndex(node, key, i) ==
  IF i < node.size /\ node.keys[i + 1] < key THEN ChildIndex(node, key, i + 1) ELSE i

\* BPlusTree._search_aux; 0 stands for None
RECURSIVE SearchAux(_, _, _)
SearchAux(t, node_id, key) ==
  LET node == ReadNode(t, node_id)
      hit == SelectSeq(node.keys, LAMBDA p : p.key = key)
  IN IF node.is_leaf
     THEN IF hit = <<>> THEN 0 ELSE hit[1].ref
     ELSE SearchAux(t, node.children[ChildIndex(node, key, 0) + 1], key)

\* BPlusTree.search
BtSearch(t, key) == IF t.root_id = -1 THEN 0 ELSE SearchAux(t, t.root_id, key)

\* BPlusTree._insert_aux: the tree afterwards and (split, new_key, new_pointer)
RECURSIVE InsertAux(_, _, _, _)
InsertAux(t, node_id, key, pointer) ==
  LET node == ReadNode(t, node_id)
      NoSplit(u) == [t |-> u, split |-> FALSE, new_key |-> 0, new_pointer |-> -1]
  IN IF node.is_leaf
     THEN LET keys == StableSort(node.keys \o <<[key |-> key, ref |-> pointer]>>)
              grown == [node EXCEPT !.keys = keys, !.size = Len(keys)]
              mid == grown.size \div 2
              right_keys == Slice(keys, mid, Len(keys))
              new_node == [BPlusTreeNode(TRUE, t.order)
                             EXCEPT !.keys = right_keys, !.size = Len(right_keys),
                                    !.next_leaf = node.next_leaf]
              new_node_id == NextNodeId(t)
              left == [grown EXCEPT !.keys = Slice(keys, 0, mid), !.size = mid,
                                    !.next_leaf = new_node_id]
          IN IF ~NodeIsFull(grown) THEN NoSplit(WriteNode(t, grown, node_id))
             ELSE [t |-> WriteNode(WriteNewNode(t, new_node), left, node_id),
                   split |-> TRUE, new_key |-> right_keys[1].key,
                   new_pointer |-> new_node_id]
     ELSE LET i == ChildIndex(node, key, 0)
              sub == InsertAux(t, node.children[i + 1], key, pointer)
              grown == [node EXCEPT !.keys = InsertAt(@, i, sub.new_key),
                                    !.children = InsertAt(@, i + 1, sub.new_pointer),
                                    !.size = @ + 1]
              mid == grown.size \div 2
              right_keys == Slice(grown.keys, mid + 1, Len(grown.keys))
              new_node == [BPlusTreeNode(FALSE, t.order)
                             EXCEPT !.keys = right_keys,
                                    !.children = Slice(grown.children, mid + 1, Len(grown.children)),
                                    !.size = Len(right_keys)]
              new_node_id == NextNodeId(sub.t)
              left == [grown EXCEPT !.keys = Slice(grown.keys, 0, mid),
                                    !.children = Slice(grown.children, 0, mid + 1),
                                    !.size = mid]
          IN IF ~sub.split THEN NoSplit(sub.t)
             ELSE IF ~NodeIsFull(grown) THEN NoSplit(WriteNode(sub.t, grown, node_id))
             ELSE [t |-> WriteNode(WriteNewNode(sub.t, new_node), left, node_id),
                   split |-> TRUE, new_key |-> grown.keys[mid + 1],
                   new_pointer |-> new_node_id]

\* BPlusTree.add
BtAdd(t, key, record_ref) ==
  LET r == InsertAux(t, t.root_id, key, record_ref)
      new_root == [BPlusTreeNode(FALSE, t.order)
                     EXCEPT !.keys = <<r.new_key>>,
                            !.children = <<t.root_id, r.new_pointer>>, !.size = 1]
  IN IF r.split
     THEN [WriteNewNode(r.t, new_root) EXCEPT !.root_id = NextNodeId(r.t)]
     ELSE r.t

\* BPlusTree._delete_aux
RECURSIVE DeleteAux(_, _, _)
DeleteAux(t, node_id, key) ==
  LET node == ReadNode(t, node_id)
      keys == SelectSeq(node.keys, LAMBDA p : p.key # key)
  IN IF node.is_leaf
     THEN WriteNode(t, [node EXCEPT !.keys = keys, !.size = Len(keys)], node_id)
     ELSE DeleteAux(t, node.children[ChildIndex(node, key, 0) + 1], key)

\* BPlusTree.remove
BtRemove(t, key) ==
  LET t1 == DeleteAux(t, t.root_id, key)
      root == ReadNode(t1, t1.root_id)
  IN IF ~root.is_leaf /\ root.size = 0 /\ root.children # <<>>
     THEN [t1 EXCEPT !.root_id = root.children[1]]
     ELSE t1

\* BPlusTree.clear: every node file removed, an empty leaf 0 written as root
BtClear(t) == BtNew(t.order)

\* BPlusTree._find_first_leaf
RECURSIVE FindFirstLeaf(_, _)
FindFirstLeaf(t, node_id) ==
  IF ReadNode(t, node_id).is_leaf THEN node_id
  ELSE FindFirstLeaf(t, ReadNode(t, node_id).children[1])

\* BPlusTree._find_leaf_id
RECURSIVE FindLeafId(_, _, _)
FindLeafId(t, node_id, key) ==
  LET node == ReadNode(t, node_id)
  IN IF node.is_leaf THEN node_id
     ELSE FindLeafId(t, node.children[ChildIndex(node, key, 0) + 1], key)

\* the walk of get_all over the leaf chain from leaf current_id
RECURSIVE LeafChain(_, _)
LeafChain(t, current_id) ==
  IF current_id = -1 THEN <<>>
  ELSE ReadNode(t, current_id).keys \o LeafChain(t, ReadNode(t, current_id).next_leaf)

\* BPlusTree.get_all
BtGetAll(t) ==
  IF t.root_id = -1 THEN <<>> ELSE LeafChain(t, FindFirstLeaf(t, t.root_id))

\* a loop over one leaf's pairs that stops at the first key outside the
\* range, keys below start included
RECURSIVE RangeInLeafBad(_, _, _, _)
RangeInLeafBad(keys, start, end, results) ==
  IF keys = <<>> THEN [results |-> results, stop |-> FALSE]
  ELSE IF start <= keys[1].key /\ keys[1].key <= end
       THEN RangeInLeafBad(Tail(keys), start, end, results \o <<keys[1]>>)
  ELSE [results |-> results, stop |-> TRUE]

\* the loop of range_search over one leaf's pairs: the results so far and
\* whether a key past end stopped the search
RECURSIVE RangeInLeaf(_, _, _, _)
RangeInLeaf(keys, start, end, results) ==
  IF keys = <<>> THEN [results |-> results, stop |-> FALSE]
  ELSE IF start <= keys[1].key /\ keys[1].key <= end
       THEN RangeInLeaf(Tail(keys), start, end, results \o <<keys[1]>>)
  ELSE IF keys[1].key > end THEN [results |-> results, stop |-> TRUE]
  ELSE RangeInLeaf(Tail(keys), start, end, results)

\* the walk of range_search along the leaf chain
RECURSIVE RangeWalk(_, _, _, _, _)
RangeWalk(t, current_id, start, end, results) ==
  IF current_id = -1 THEN results
  ELSE LET r == RangeInLeaf(ReadNode(t, current_id).keys, start, end, results)
       IN IF r.stop THEN r.results
          ELSE RangeWalk(t, ReadNode(t, current_id).next_leaf, start, end, r.results)

\* BPlusTree.range_search
BtRangeSearch(t, start, end) ==
  IF t.root_id = -1 THEN <<>>
  ELSE RangeWalk(t, FindLeafId(t, t.root_id, start), start, end, <<>>)


(***************************************************************************)
(* Bounds of the checked instances                                         *)
(***************************************************************************)
\* fields per schema in the codec runs
MaxFields == 2

\* records per heap file
MaxHeap == 3

\* keys 1..MaxSeqKey, rows inserted per sequential file, thresholds 1..MaxAux
MaxSeqKey == 5

MaxSeqRecs == 4

MaxAux == 2

\* add and remove calls per ISAMFile run
MaxIsamCalls == 2

\* ISAMIndex runs: bucket sizes 1..MaxIxBlock, directory groups of IxGroup,
\* keys 1..MaxIxKey, at most MaxIxBuild rows built, MaxIxCalls later calls
MaxIxBlock == 2

IxGroup == 2

MaxIxKey == 3

MaxIxBuild == 3

MaxIxCalls == 2

\* add and remove calls per hashing run
MaxEhCalls == 3

\* B+ tree runs: orders 1..MaxBtOrder, keys 1..MaxBtKey, MaxBtCalls calls
MaxBtOrder == 3

MaxBtKey == 4

MaxBtCalls == 4

(***************************************************************************)
(* Initial values: every structure as its constructor leaves it            *)
(***************************************************************************)
CodecIdle == cSchema = <<>> /\ cRecord = <<>> /\ cStage = "idle" /\ cVal = <<>>

\* the processes that call the heap: two writers and a reader, none in a call
Writers == {1, 2}

HpIdle ==
  [w |-> [i \in Writers |-> [pc |-> "idle", n |-> 0, rec |-> <<>>, ret |-> -1]],
   r |-> [pc |-> "idle", op |-> "", n |-> 0, pos |-> 0, st |-> "", val |-> <<>>],
   active |-> {}]

HeapIdle ==
  /\ heap = HeapNew /\ heapLog = <<>>
  /\ heapRet = [op |-> "new", pos |-> 0, ok |-> TRUE, val |-> <<>>]
  /\ hp = HpIdle

\* no row under any key: the rows a sequential file is expected to hold
NoRows == Tuple([k \in 1..MaxSeqKey |-> <<>>])

SeqIdle ==
  /\ sf = SeqNew(DefaultMaxAux)
  /\ sfRef = SeqNew(DefaultMaxAux)
  /\ sfRet = [op |-> "new", key |-> 0, st |-> "ok", ret |-> TRUE, recons |-> 0]
  /\ sfShadow = NoRows

IsamIdle == isam = IsamNew /\ isamRet = [op |-> "new", a |-> 0, b |-> 0, out |-> <<>>]

IxIdle ==
  /\ ix = IxNew(DefaultBlockFactor, DefaultRootFactor, DefaultSuperFactor)
  /\ ixRet = [op |-> "new", key |-> 0, out |-> 0, built |-> FALSE]

EhIdle ==
  /\ eh = EhNone
  /\ ehShadow = [k \in DOMAIN Md5Tail |-> 0]
  /\ ehRet = [op |-> "none", key |-> "", out |-> 0, st |-> "ok"]

BtIdle ==
  /\ bt = BtNew(DefaultOrder)
  /\ btShadow = [keys |-> {}, distinct |-> TRUE, refs |-> [k \in 1..MaxBtKey |-> 0], adds_only |-> TRUE]
  /\ btRet = [op |-> "new", key |-> 0]

(***************************************************************************)
(* Codec runs: correct_format, then to_bytes, then from_bytes of a record  *)
(***************************************************************************)
FieldTypes == {Ty("i"), Ty("q"), Ty("f"), Ty("d"), Ty("?"), TyStr(TextWidth)}

\* texts of up to one byte more than the field holds: "", "a", "ab", "abc", ...
TextValues == {PyStr(Tuple([i \in 1..n |-> 96 + i])) : n \in 0..(TextWidth + 1)}

\* the values a field of a type takes, None (absent) included
ValuesOf(ty) ==
  {PyNone} \cup
  (IF IsIntTy(ty) THEN {PyInt(0), PyInt(7), PyInt(-1), PyInt(INT_NULL)}
   ELSE IF IsFloatTy(ty) THEN {PyFloat(0), PyFloat(-3), PyFloat(16777217)}
   ELSE IF ty.t = "?" THEN {PyBool(TRUE), PyBool(FALSE)}
   ELSE TextValues)

Schemas == UNION {[1..n -> FieldTypes] : n \in 1..MaxFields}

RecordsOf(schema) ==
  {r \in [1..Len(schema) -> UNION {ValuesOf(ty) : ty \in FieldTypes}] :
     \A i \in 1..Len(schema) : r[i] \in ValuesOf(schema[i])}

InitCodec ==
  /\ engine = "codec"
  /\ budget = 0
  /\ cSchema \in Schemas
  /\ cRecord \in RecordsOf(cSchema)
  /\ cStage = "record"
  /\ cVal = cRecord
  /\ HeapIdle /\ SeqIdle /\ IsamIdle /\ IxIdle /\ EhIdle /\ BtIdle

notCodec == <<engine, budget, heapVars, seqVars, isamVars, ixVars, ehVars, btVars>>

CodecCorrectFormat ==
  /\ cStage = "record"
  /\ cVal' = CorrectFormat(cSchema, cRecord)
  /\ cStage' = "formatted"
  /\ UNCHANGED <<cSchema, cRecord, notCodec>>

CodecToBytes ==
  /\ cStage = "formatted"
  /\ cVal' = ToBytes(cSchema, cVal)
  /\ cStage' = "bytes"
  /\ UNCHANGED <<cSchema, cRecord, notCodec>>

CodecFromBytes ==
  /\ cStage = "bytes"
  /\ cVal' = FromBytes(cSchema, cVal)
  /\ cStage' = "decoded"
  /\ UNCHANGED <<cSchema, cRecord, notCodec>>

NextCodec == CodecCorrectFormat \/ CodecToBytes \/ CodecFromBytes

SpecCodec == InitCodec /\ [][NextCodec]_vars

(***************************************************************************)
(* Heap runs                                                               *)
(***************************************************************************)
HeapRecords ==
  {<<PyInt(k), s>> : k \in {1, 2, INT_NULL}, s \in {PyStr(<<97>>), PyStr(<<97, 98, 99>>)}}

InitHeap ==
  /\ engine = "heap"
  /\ budget = 0
  /\ HeapIdle
  /\ CodecIdle /\ SeqIdle /\ IsamIdle /\ IxIdle /\ EhIdle /\ BtIdle

notHeap == <<engine, budget, codecVars, seqVars, isamVars, ixVars, ehVars, btVars>>

HeapInsertAct ==
  \E rec \in HeapRecords :
    /\ HeapCount(heap) < MaxHeap
    /\ LET r == HeapInsert(heap, rec)
       IN /\ heap' = r.h
          /\ heapLog' = heapLog \o <<[rec |-> rec, pos |-> r.pos]>>
          /\ heapRet' = [op |-> "insert", pos |-> r.pos, ok |-> TRUE, val |-> <<>>]
    /\ UNCHANGED <<hp, notHeap>>

HeapReadAct ==
  \E pos \in -2..(MaxHeap + 1) :
    /\ LET r == HeapRead(heap, pos)
       IN heapRet' = [op |-> "read", pos |-> pos, ok |-> r.ok, val |-> r.val]
    /\ UNCHANGED <<heap, heapLog, hp, notHeap>>

\* update(pos, record): heapLog keeps, for every position, the record last
\* written there
HeapUpdateAct ==
  \E pos \in -1..MaxHeap : \E rec \in HeapRecords :
    /\ LET r == HeapUpdate(heap, pos, rec)
       IN /\ heap' = r.h
          /\ heapLog' = IF r.ok THEN [heapLog EXCEPT ![pos + 1].rec = rec] ELSE heapLog
          /\ heapRet' = [op |-> "update", pos |-> pos, ok |-> r.ok, val |-> <<>>]
    /\ UNCHANGED <<hp, notHeap>>

HeapClearAct ==
  /\ heap' = HeapNew
  /\ heapLog' = <<>>
  /\ heapRet' = [op |-> "clear", pos |-> 0, ok |-> TRUE, val |-> <<>>]
  /\ UNCHANGED <<hp, notHeap>>

NextHeap == HeapInsertAct \/ HeapReadAct \/ HeapUpdateAct \/ HeapClearAct

SpecHeap == InitHeap /\ [][NextHeap]_vars

(***************************************************************************)
(* Claims                                                                  *)
(***************************************************************************)
\* what a value reads back as when only the fixed width of a text is accounted
\* for: a text truncated to the field width, trailing zero bytes removed
AsStored(v, ty) ==
  IF ty.t = "s" /\ v.k = "str" THEN PyStr(RStripNul(Slice(v.s, 0, ty.w))) ELSE v

SameRecord(schema, rec, out) ==
  /\ Len(out) = Len(rec)
  /\ \A i \in 1..Len(rec) : PyEq(out[i], AsStored(rec[i], schema[i]))

\* C1: the n-th insert returns position n, count() is the number of inserts, and
\* read(p) returns the record passed to the insert that returned p, or to the
\* last update of p (a text being compared after truncation to its width),
\* however many inserts follow.
C1_HeapMonotonic ==
  /\ HeapCount(heap) = Len(heapLog)
  /\ \A i \in 1..Len(heapLog) :
       /\ heapLog[i].pos = i - 1
       /\ HeapRead(heap, i - 1).ok
       /\ SameRecord(TableFormat, heapLog[i].rec, HeapRead(heap, i - 1).val)

\* C9: from_bytes(to_bytes(correct_format(record))) equals the record for every
\* record whose fields all hold a value, texts compared after truncation to the
\* field width and removal of trailing zero bytes.
C9_RoundTrip ==
  (cStage = "decoded" /\ \A i \in 1..Len(cRecord) : cRecord[i].k # "none")
    => SameRecord(cSchema, cRecord, cVal)

\* C25: for every field type a record whose value in a field is None is
\* given that type's sentinel by correct_format and decoded back to None in
\* that field by from_bytes(to_bytes(...)).
C25_NullRoundTrip ==
  /\ cStage = "formatted" =>
       \A i \in 1..Len(cRecord) :
         cRecord[i].k = "none" => cVal[i] = GetNullValue(cSchema[i])
  /\ cStage = "decoded" =>
       \A i \in 1..Len(cRecord) : cRecord[i].k = "none" => cVal[i] = PyNone

SeqKeys == 1..MaxSeqKey

SeqRecords == {<<PyInt(k), PyStr(<<97>>)>> : k \in SeqKeys}

InitSeq ==
  /\ engine = "sequential"
  /\ budget = 0
  /\ \E t \in 1..MaxAux : sf = SeqNew(t)
  /\ sfRef = SeqNew(DefaultMaxAux)
  /\ sfRet = [op |-> "new", key |-> 0, st |-> "ok", ret |-> TRUE, recons |-> 0]
  /\ sfShadow = NoRows
  /\ CodecIdle /\ HeapIdle /\ IsamIdle /\ IxIdle /\ EhIdle /\ BtIdle

notSeq == <<engine, budget, codecVars, heapVars, isamVars, ixVars, ehVars, btVars>>

\* the rows expected after an insert call: the row as it reads back, under its
\* key, when insert returned True
Expect(rows, rec, r) ==
  IF r.st = "ok" /\ r.ret
    THEN [rows EXCEPT ![rec[1].n] = <<rec[1], AsStored(rec[2], TableFormat[2])>>]
    ELSE rows

\* the runs of _reconstruct in insert(record) on the file s: 1 when the call
\* reached the threshold check with num_aux >= max_aux_size, else 0
Reconstructed(s, record) == SeqInsert(s, record).recon

SeqInsertAct ==
  \E rec \in SeqRecords :
    /\ HeapCount(sf.heap) < MaxSeqRecs
    /\ LET r == SeqInsert(sf, rec)
       IN /\ sf' = r.s
          /\ sfRet' = [op |-> "insert", key |-> rec[1].n, st |-> r.st, ret |-> r.ret,
                       recons |-> sfRet.recons + Reconstructed(sf, rec)]
    /\ sfRef' = SeqInsert(sfRef, rec).s
    /\ sfShadow' = Expect(sfShadow, rec, SeqInsert(sf, rec))
    /\ UNCHANGED notSeq

\* SequentialFile(..., max_aux_size = t, force_create = False) on the files of sf
SeqReopenAct ==
  \E t \in 1..MaxAux :
    /\ sf.root # -1
    /\ sf.max_aux # t
    /\ sf' = SeqOpen(sf, t)
    /\ sfRet' = [sfRet EXCEPT !.op = "open", !.key = 0, !.st = "ok", !.ret = TRUE]
    /\ UNCHANGED <<sfRef, sfShadow, notSeq>>

\* insert calls, between which the file may be opened again
NextSeqInsert == SeqInsertAct \/ SeqReopenAct

SpecSeqInsert == InitSeq /\ [][NextSeqInsert]_vars

KeysOfRows(rows) == Tuple([i \in 1..Len(rows) |-> rows[i][1].n])

StrictlyAscending(ks) == \A i \in 1..Len(ks) : \A j \in 1..Len(ks) : i < j => ks[i] < ks[j]

\* C2: after any sequence of insert calls, whatever the threshold and the number
\* of reconstructions, scan_all() returns keys in strictly ascending order.
C2_ScanSorted ==
  /\ SeqScanAll(sf).st = "ok"
  /\ StrictlyAscending(KeysOfRows(SeqScanAll(sf).rows))

\* a file reconstructed twice, with a row inserted into the auxiliary area since
C2_Witness ==
  /\ sfRet.recons >= 2
  /\ sf.ndata >= 2 /\ sf.naux >= 1
  /\ Len(SeqScanAll(sf).rows) = sf.ndata + sf.naux

\* the index of a file just reconstructed: no auxiliary entry, every entry
\* live and linked to the next one, the last one to -1, from the root 0
Compact(s) ==
  /\ s.naux = 0
  /\ s.ndata = Len(s.idx)
  /\ s.root = 0
  /\ \A i \in 1..Len(s.idx) : s.idx[i].next = (IF i = Len(s.idx) THEN -1 ELSE i)

\* C24: whenever insert returns, the auxiliary count of the header is below
\* max_aux_size: an insert that brings the count up to the threshold
\* reconstructs before it returns, after which the auxiliary count is 0, the
\* primary count is the number of live entries and entry i points to entry
\* i+1, the last one to -1.
C24_BelowThreshold ==
  \A rec \in SeqRecords :
    LET r == SeqInsert(sf, rec)
    IN (r.st = "ok" /\ r.ret) =>
         /\ r.s.naux < r.s.max_aux
         /\ Reconstructed(sf, rec) = 1 => Compact(r.s)

\* C3: the same inserts into a file that reconstructs and into one that never
\* does give the same scan_all() and the same search(key) for every key.
C3_ReconstructTransparent ==
  /\ SeqScanAll(sf) = SeqScanAll(sfRef)
  /\ \A k \in 0..(MaxSeqKey + 1) : SeqSearch(sf, k) = SeqSearch(sfRef, k)

\* sf has been reconstructed twice and has taken an insert between two primary
\* entries since; sfRef never was
C3_Witness ==
  /\ sfRet.recons >= 2
  /\ sf.ndata >= 2 /\ sf.naux >= 1 /\ sfRef.ndata = 0
  /\ sfRet.op = "insert" /\ sfRet.ret
  /\ \E i \in 1..(sf.ndata - 1) :
       sf.idx[i].key < sfRet.key /\ sfRet.key < sf.idx[i + 1].key


(***************************************************************************)
(* Sequential File runs with insert and delete calls.  The n-th row put    *)
(* into the file carries the text of its number, so that a row inserted    *)
(* again under a deleted key differs from the deleted one.  sfShadow holds *)
(* the row expected under every key: the row of the last insert that       *)
(* returned True, no row after a delete call.                              *)
(***************************************************************************)
\* the row the next insert of key k passes
NextRow(s, k) == <<PyInt(k), PyStr(<<97 + HeapCount(s.heap)>>)>>

\* a file built with a small max_aux_size or with the default one
InitSeqDel ==
  /\ engine = "sequential"
  /\ budget = 0
  /\ \E t \in (1..MaxAux) \cup {DefaultMaxAux} : sf = SeqNew(t)
  /\ sfRef = SeqNew(DefaultMaxAux)
  /\ sfRet = [op |-> "new", key |-> 0, st |-> "ok", ret |-> TRUE, recons |-> 0]
  /\ sfShadow = NoRows
  /\ CodecIdle /\ HeapIdle /\ IsamIdle /\ IxIdle /\ EhIdle /\ BtIdle

\* a call is made once the call before it has returned or raised
SeqPutAct ==
  \E k \in SeqKeys :
    /\ sfRet.st # "hang"
    /\ HeapCount(sf.heap) < MaxSeqRecs
    /\ LET r == SeqInsert(sf, NextRow(sf, k))
       IN /\ sf' = r.s
          /\ sfRet' = [op |-> "insert", key |-> k, st |-> r.st, ret |-> r.ret,
                       recons |-> sfRet.recons + Reconstructed(sf, NextRow(sf, k))]
          /\ sfShadow' = Expect(sfShadow, NextRow(sf, k), r)
    /\ UNCHANGED <<sfRef, notSeq>>

SeqDeleteAct ==
  \E k \in SeqKeys :
    /\ sfRet.st # "hang"
    /\ LET r == SeqDelete(sf, k)
       IN /\ sf' = r.s
          /\ sfRet' = [op |-> "delete", key |-> k, st |-> r.st, ret |-> r.ret,
                       recons |-> sfRet.recons]
    /\ sfShadow' = [sfShadow EXCEPT ![k] = <<>>]
    /\ UNCHANGED <<sfRef, notSeq>>

NextSeq == SeqPutAct \/ SeqDeleteAct

SpecSeq == InitSeqDel /\ [][NextSeq]_vars

\* the rows expected in the file, in ascending key order
ShadowRows == SelectSeq(sfShadow, LAMBDA row : row # <<>>)

\* C11: insert of a record whose key is live returns False and changes nothing:
\* header, index entries and heap are as before, and search(key) returns the
\* row stored before.
C11_DuplicateRejected ==
  (engine = "sequential" /\ sfRet.st = "ok") =>
    \A k \in SeqKeys :
      sfShadow[k] # <<>> =>
        LET r == SeqInsert(sf, NextRow(sf, k))
        IN /\ r.st = "ok" /\ ~r.ret
           /\ r.s = sf
           /\ SeqSearch(r.s, k) = [st |-> "ok", found |-> TRUE, row |-> sfShadow[k]]

\* C15: after any insert and delete calls scan_all() returns exactly one row for
\* each key inserted and not deleted since, with the values given at insertion.
C15_ScanExact ==
  (engine = "sequential" /\ sfRet.st = "ok") =>
    SeqScanAll(sf) = [st |-> "ok", rows |-> ShadowRows]

\* C17: search_range(b, e) returns exactly the live rows with b <= key <= e in
\* ascending key order, and the empty list when b > e.
C17_RangeExact ==
  (engine = "sequential" /\ sfRet.st = "ok") =>
    \A b \in 0..(MaxSeqKey + 1) : \A e \in 0..(MaxSeqKey + 1) :
      SeqSearchRange(sf, b, e) =
        [st |-> "ok",
         rows |-> IF b > e THEN <<>>
                  ELSE SelectSeq(ShadowRows, LAMBDA row : b <= row[1].n /\ row[1].n <= e)]

\* C28: in every state reached by insert and delete calls the walk of the
\* next pointers from pos_root ends at -1 (a walk that met a position twice
\* would not end), and meets no tombstoned entry.
C28_ChainEnds ==
  (engine = "sequential" /\ sfRet.st = "ok") =>
    /\ Chain(sf).st = "ok"
    /\ \A i \in 1..Len(Chain(sf).recs) : IsLive(Chain(sf).recs[i])


(***************************************************************************)
(* ISAMFile runs: build_from_records, build_index, add and remove calls    *)
(***************************************************************************)
\* records per build: none, one, one full page, one record more than the
\* pages of one root block hold
BuildSizes == {0, 1, BLOCK_FACTOR, BLOCK_FACTOR * INDEX_BLOCK_FACTOR + 1}

\* the build input of n records: the even ids 2n, ..., 4, 2 (unsorted)
BuildInput(n) == Tuple([i \in 1..n |-> 2 * (n + 1 - i)])

\* ids added and removed: the built ones, the ones between them, and beyond
IsamKeys == 1..(2 * (BLOCK_FACTOR * INDEX_BLOCK_FACTOR + 1) + 1)

InitIsam ==
  /\ engine = "isamfile"
  /\ budget = MaxIsamCalls
  /\ IsamIdle
  /\ CodecIdle /\ HeapIdle /\ SeqIdle /\ IxIdle /\ EhIdle /\ BtIdle

notIsam == <<engine, codecVars, heapVars, seqVars, ixVars, ehVars, btVars>>

\* build_from_records, on a new file or over an existing one
IsamBuildAct ==
  \E n \in BuildSizes :
    /\ isam' = IsamBuildFromRecords(isam, BuildInput(n))
    /\ isamRet' = [op |-> "build", a |-> n, b |-> 0, out |-> <<>>]
    /\ UNCHANGED <<budget, notIsam>>

\* build_index called on its own: the index rebuilt from the pages of the file
IsamBuildIndexAct ==
  /\ isam' = BuildIndex(isam)
  /\ isamRet' = [op |-> "build_index", a |-> 0, b |-> 0, out |-> <<>>]
  /\ UNCHANGED <<budget, notIsam>>

IsamAddAct ==
  \E id \in IsamKeys :
    /\ budget > 0
    /\ budget' = budget - 1
    /\ isam' = IsamAdd(isam, id)
    /\ isamRet' = [op |-> "add", a |-> id, b |-> 0, out |-> <<>>]
    /\ UNCHANGED notIsam

IsamRemoveAct ==
  \E id \in IsamKeys :
    /\ budget > 0
    /\ budget' = budget - 1
    /\ isam' = IsamRemove(isam, id).f
    /\ isamRet' = [op |-> "remove", a |-> id, b |-> 0, out |-> <<IsamRemove(isam, id).removed>>]
    /\ UNCHANGED notIsam

NextIsam == IsamBuildAct \/ IsamBuildIndexAct \/ IsamAddAct \/ IsamRemoveAct

SpecIsam == InitIsam /\ [][NextIsam]_vars

\* every record of the file, read page by page: the primary pages and, through
\* next_page, every overflow chain
RECURSIVE AllIsamRecords(_, _)
AllIsamRecords(f, p) ==
  IF p >= Len(f.leaf) THEN <<>>
  ELSE ReadPage(f, p).records \o ChainRecords(f, ReadPage(f, p).next)
       \o AllIsamRecords(f, p + 1)

\* how many times x occurs in a sequence
CountIn(s, x) == Cardinality({i \in 1..Len(s) : s[i] = x})

SameMultiset(s, u) == \A x \in Range(s) \cup Range(u) : CountIn(s, x) = CountIn(u, x)

\* C4: after build_from_records and any add and remove calls, range_search(a, b)
\* returns the same multiset of records as the records with a <= id <= b found
\* by scanning every primary page and every overflow chain.
C4_RangeComplete ==
  isam.leaf # <<>> =>
    \A a \in IsamKeys : \A b \in IsamKeys :
      a <= b =>
        SameMultiset(IsamRangeSearch(isam, a, b),
                     SelectSeq(AllIsamRecords(isam, 0), LAMBDA x : a <= x /\ x <= b))


(***************************************************************************)
(* ISAMIndex runs: build_from_records, add, remove and clear calls         *)
(***************************************************************************)
IxKeys == 1..MaxIxKey

\* every list of at most MaxIxBuild keys, in any order, duplicates included
IxBuildKeys == UNION {[1..n -> IxKeys] : n \in 0..MaxIxBuild}

\* the (key, row) items of a build: row i carries its key and its position
IxItems(ks) == Tuple([i \in 1..Len(ks) |-> [key |-> ks[i], row |-> [id |-> ks[i], tag |-> i]]])

InitIx ==
  /\ engine = "isamindex"
  /\ budget = MaxIxCalls
  /\ \E bf \in 1..MaxIxBlock : ix = IxNew(bf, IxGroup, IxGroup)
  /\ ixRet = [op |-> "new", key |-> 0, out |-> 0, built |-> FALSE]
  /\ CodecIdle /\ HeapIdle /\ SeqIdle /\ IsamIdle /\ EhIdle /\ BtIdle

notIx == <<engine, codecVars, heapVars, seqVars, isamVars, ehVars, btVars>>

\* build_from_records, on a new index or over an existing one; ixRet.built
\* says whether the index was built and not cleared since
IxBuildAct ==
  \E ks \in IxBuildKeys :
    /\ ix' = IxBuildFromRecords(ix, IxItems(ks))
    /\ ixRet' = [op |-> "build", key |-> 0, out |-> Len(ks), built |-> TRUE]
    /\ UNCHANGED <<budget, notIx>>

IxAddAct ==
  \E key \in IxKeys :
    /\ budget > 0
    /\ budget' = budget - 1
    /\ ix' = IxAdd(ix, key, [id |-> key, tag |-> Len(ix.heap) + 1])
    /\ ixRet' = [op |-> "add", key |-> key, out |-> 1, built |-> ixRet.built]
    /\ UNCHANGED notIx

IxRemoveAct ==
  \E key \in IxKeys :
    /\ budget > 0
    /\ budget' = budget - 1
    /\ ix' = IxRemove(ix, key).x
    /\ ixRet' = [op |-> "remove", key |-> key, out |-> IxRemove(ix, key).removed,
                 built |-> ixRet.built]
    /\ UNCHANGED notIx

IxClearAct ==
  /\ ix' = IxClear(ix)
  /\ ixRet' = [op |-> "clear", key |-> 0, out |-> 0, built |-> FALSE]
  /\ UNCHANGED <<budget, notIx>>

NextIx == IxBuildAct \/ IxAddAct \/ IxRemoveAct \/ IxClearAct

SpecIx == InitIx /\ [][NextIx]_vars

\* C7: in every reachable state and for every key k, a remove of k issued
\* immediately after a remove of k reports nothing removed (ISAMIndex.remove
\* returns 0) and leaves the stored contents unchanged.
C7_RemoveTwice ==
  engine = "isamindex" =>
    \A k \in IxKeys :
      LET once == IxRemove(ix, k).x
      IN /\ IxRemove(once, k).removed = 0
         /\ IxRemove(once, k).x = once

\* the rows stored under a key: the entries of every primary bucket and every
\* overflow list that carry the key
IxStored(x, key) ==
  RowsAt(x, SelectSeq(EntriesOfBuckets(x, 0, Len(x.leaves) - 1), LAMBDA en : en.key = key))

\* C12: after build_from_records and any add and remove calls of an
\* ISAMIndex, search(key) returns every stored row whose key is key, all
\* duplicates included, from primary buckets and overflow lists, and no
\* other row.
C12_SearchAllDuplicates ==
  (engine = "isamindex" /\ ixRet.op # "new") =>
    \A k \in IxKeys :
      /\ SameMultiset(IxSearch(ix, k), IxStored(ix, k))
      /\ \A i \in 1..Len(IxSearch(ix, k)) : IxSearch(ix, k)[i].id = k

\* the directory of an ISAMIndex: the first key of every bucket and the two
\* levels built over them
IxDirectory(x) == <<x.dir_keys, x.root, x.super_root>>

\* C13: once an ISAMIndex has been built, no add and no remove changes its
\* directory: dir_keys, root and super_root are the same after the call as
\* before it.
C13_DirectoryFixed ==
  (engine = "isamindex" /\ ixRet.built) =>
    \A k \in IxKeys :
      /\ IxDirectory(IxAdd(ix, k, [id |-> k, tag |-> Len(ix.heap) + 1])) = IxDirectory(ix)
      /\ IxDirectory(IxRemove(ix, k).x) = IxDirectory(ix)

\* C22: remove(k) returns the number of stored entries whose key is k and
\* removes exactly those: for every other key search returns the same rows
\* after the remove as before it, also when the remove empties a primary
\* bucket or removes a bucket's first key.
C22_RemoveExact ==
  (engine = "isamindex" /\ ixRet.op # "new") =>
    \A k \in IxKeys :
      /\ IxRemove(ix, k).removed = Len(IxStored(ix, k))
      /\ IxStored(IxRemove(ix, k).x, k) = <<>>
      /\ \A other \in IxKeys \ {k} : IxSearch(IxRemove(ix, k).x, other) = IxSearch(ix, other)

\* the buckets (0-based) whose directory key is <= key
BucketsLE(x, key) == {i \in 0..(Len(x.dir_keys) - 1) : x.dir_keys[i + 1] <= key}

\* C23: after build_from_records and any add and remove calls dir_keys is
\* non-decreasing in bucket order, so that _leaf_index_for_key selects the
\* last bucket whose directory key is <= the searched key (the first bucket
\* when there is none).
C23_DirKeysSorted ==
  (engine = "isamindex" /\ ixRet.op # "new") =>
    /\ \A i \in 1..(Len(ix.dir_keys) - 1) : ix.dir_keys[i] <= ix.dir_keys[i + 1]
    /\ \A k \in IxKeys :
         LeafIndexForKey(ix, k) =
           IF BucketsLE(ix, k) = {} THEN 0
           ELSE CHOOSE i \in BucketsLE(ix, k) : \A j \in BucketsLE(ix, k) : j <= i


(***************************************************************************)
(* Extendible hashing runs: the class called with any capacity and depths. *)
(* The call raises and makes no table, so no add or remove call follows:   *)
(* the calls on a table wait for a table that was made.  ehShadow keeps    *)
(* the value of the last add that returned for every key, 0 for a key      *)
(* never added or removed since.                                           *)
(***************************************************************************)
EhKeys == DOMAIN Md5Tail

\* the constructor arguments of the runs
EhCapacities == {1, 2}

EhInitialDepths == {0, 1}

EhMaxDepths == {1, 2, 3}

InitEh ==
  /\ engine = "hashing"
  /\ budget = MaxEhCalls
  /\ \E c \in EhCapacities : \E d \in EhInitialDepths : \E m \in EhMaxDepths :
       /\ eh = EhNew(c, d, m).e
       /\ ehRet = [op |-> "new", key |-> "", out |-> 0, st |-> EhNew(c, d, m).st]
  /\ ehShadow = [k \in EhKeys |-> 0]
  /\ CodecIdle /\ HeapIdle /\ SeqIdle /\ IsamIdle /\ IxIdle /\ BtIdle

notEh == <<engine, codecVars, heapVars, seqVars, isamVars, ixVars, btVars>>

\* add(key, value) on a table: the value is the number of the call
EhAddAct ==
  \E key \in EhKeys :
    LET value == MaxEhCalls - budget + 1
        r == EhAdd(eh, key, value)
    IN /\ eh.made
       /\ budget > 0
       /\ budget' = budget - 1
       /\ eh' = r.e
       /\ ehShadow' = IF r.st = "ok" THEN [ehShadow EXCEPT ![key] = value] ELSE ehShadow
       /\ ehRet' = [op |-> "add", key |-> key, out |-> value, st |-> r.st]
       /\ UNCHANGED notEh

\* remove(key) on a table
EhRemoveAct ==
  \E key \in EhKeys :
    LET r == EhRemove(eh, key)
    IN /\ eh.made
       /\ budget > 0
       /\ budget' = budget - 1
       /\ eh' = r.e
       /\ ehShadow' = IF r.st = "ok" THEN [ehShadow EXCEPT ![key] = 0] ELSE ehShadow
       /\ ehRet' = [op |-> "remove", key |-> key, st |-> r.st,
                    out |-> IF r.removed THEN 1 ELSE 0]
       /\ UNCHANGED notEh

NextEh == EhAddAct \/ EhRemoveAct

SpecEh == InitEh /\ [][NextEh]_vars

\* no call of the class makes a table: every run of SpecEh stays in its
\* initial state, the constructor having raised TypeError
NoTable == engine = "hashing" => (~eh.made /\ ehRet.st = "TypeError" /\ eh.buckets = <<>>)


(***************************************************************************)
(* B+ tree runs: add, remove and clear on a tree of any small order        *)
(***************************************************************************)
BtKeys == 1..MaxBtKey

InitBt ==
  /\ engine = "bplustree"
  /\ budget = MaxBtCalls
  /\ \E order \in 1..MaxBtOrder : bt = BtNew(order)
  /\ btShadow = [keys |-> {}, distinct |-> TRUE, refs |-> [k \in BtKeys |-> 0], adds_only |-> TRUE]
  /\ btRet = [op |-> "new", key |-> 0]
  /\ CodecIdle /\ HeapIdle /\ SeqIdle /\ IsamIdle /\ IxIdle /\ EhIdle

notBt == <<engine, codecVars, heapVars, seqVars, isamVars, ixVars, ehVars>>

\* add(key, ref): the ref is the number of the call; btShadow keeps, since the
\* tree was made or cleared, the keys added and not removed since, whether
\* every add was of an absent key, the ref last added with every key (0 for
\* none) and whether no remove was called
BtAddAct ==
  \E key \in BtKeys :
    /\ budget > 0
    /\ budget' = budget - 1
    /\ bt' = BtAdd(bt, key, MaxBtCalls - budget + 1)
    /\ btShadow' = [keys |-> btShadow.keys \cup {key},
                    distinct |-> btShadow.distinct /\ key \notin btShadow.keys,
                    refs |-> [btShadow.refs EXCEPT ![key] = MaxBtCalls - budget + 1],
                    adds_only |-> btShadow.adds_only]
    /\ btRet' = [op |-> "add", key |-> key]
    /\ UNCHANGED notBt

BtRemoveAct ==
  \E key \in BtKeys :
    /\ budget > 0
    /\ budget' = budget - 1
    /\ bt' = BtRemove(bt, key)
    /\ btShadow' = [btShadow EXCEPT !.keys = @ \ {key}, !.refs[key] = 0, !.adds_only = FALSE]
    /\ btRet' = [op |-> "remove", key |-> key]
    /\ UNCHANGED notBt

\* clear(): btShadow starts again, as for a new tree
BtClearAct ==
  /\ bt' = BtClear(bt)
  /\ btShadow' = [keys |-> {}, distinct |-> TRUE, refs |-> [k \in BtKeys |-> 0], adds_only |-> TRUE]
  /\ btRet' = [op |-> "clear", key |-> 0]
  /\ UNCHANGED <<budget, notBt>>

NextBt == BtAddAct \/ BtRemoveAct \/ BtClearAct

SpecBt == InitBt /\ [][NextBt]_vars

\* the keys of get_all, in leaf-chain order
LeafKeys(t) == Tuple([i \in 1..Len(BtGetAll(t)) |-> BtGetAll(t)[i].key])

\* C6: after any sequence of add (of distinct keys) and remove calls, the leaf
\* chain walked by get_all yields exactly the keys added and not removed
\* since, in strictly ascending order, each exactly once.
C6_LeafChain ==
  (engine = "bplustree" /\ btShadow.distinct) =>
    /\ StrictlyAscending(LeafKeys(bt))
    /\ Range(LeafKeys(bt)) = btShadow.keys

\* C14: after add calls with distinct keys and non-null references, search(k)
\* returns the reference added with k for every added key k, keys that became
\* separators of internal nodes included, and None for every key never added.
C14_SearchAdded ==
  (engine = "bplustree" /\ btShadow.distinct /\ btShadow.adds_only) =>
    \A k \in BtKeys : BtSearch(bt, k) = btShadow.refs[k]

\* the (key, reference) pairs added, in ascending key order
RECURSIVE AddedFrom(_, _)
AddedFrom(refs, k) ==
  IF k > MaxBtKey THEN <<>>
  ELSE (IF refs[k] # 0 THEN <<[key |-> k, ref |-> refs[k]]>> ELSE <<>>) \o AddedFrom(refs, k + 1)

\* C18: after add calls with distinct keys, range_search(a, b) returns exactly
\* the added (key, reference) pairs with a <= key <= b in ascending key order,
\* also when a or b is a separator key of an internal node.
C18_RangeExact ==
  (engine = "bplustree" /\ btShadow.distinct /\ btShadow.adds_only) =>
    \A a \in 0..(MaxBtKey + 1) : \A b \in 0..(MaxBtKey + 1) :
      BtRangeSearch(bt, a, b) =
        SelectSeq(AddedFrom(btShadow.refs, 1), LAMBDA p : a <= p.key /\ p.key <= b)

\* a tree of at least three distinct added keys whose root is an internal
\* node, one of whose separators is an added key that range_search returns
C18_Witness ==
  /\ engine = "bplustree" /\ btShadow.distinct /\ btShadow.adds_only
  /\ Cardinality(btShadow.keys) >= 3
  /\ ~ReadNode(bt, bt.root_id).is_leaf
  /\ \E i \in 1..Len(ReadNode(bt, bt.root_id).keys) :
       LET sep == ReadNode(bt, bt.root_id).keys[i]
       IN /\ sep \in btShadow.keys
          /\ sep - 1 \in btShadow.keys
          /\ BtRangeSearch(bt, sep, sep) = <<[key |-> sep, ref |-> btShadow.refs[sep]]>>
          /\ Len(BtRangeSearch(bt, sep - 1, sep)) = 2


\* the depths at which the leaves below a node lie, the node being at depth 0
RECURSIVE LeafDepths(_, _)
LeafDepths(t, node_id) ==
  LET node == ReadNode(t, node_id)
  IN IF node.is_leaf THEN {0}
     ELSE {d + 1 : d \in UNION {LeafDepths(t, node.children[i]) : i \in 1..Len(node.children)}}

\* every node file within the order, an internal node with one child more
\* than keys, every leaf at one depth
Balanced(t) ==
  /\ \A i \in 1..Len(t.nodes) :
       /\ t.nodes[i].size = Len(t.nodes[i].keys)
       /\ t.nodes[i].size <= t.order
       /\ ~t.nodes[i].is_leaf => Len(t.nodes[i].children) = Len(t.nodes[i].keys) + 1
  /\ Cardinality(LeafDepths(t, t.root_id)) = 1

\* what add(key, ref) does to the leaf the key descends to, and to the root
SplitsAtMidpoint(t, key, ref) ==
  LET leaf_id == FindLeafId(t, t.root_id, key)
      leaf == ReadNode(t, leaf_id)
      u == BtAdd(t, key, ref)
      new_id == Len(t.nodes)
      mid == (t.order + 1) \div 2
      left == ReadNode(u, leaf_id)
  IN /\ leaf.size < t.order =>
          /\ u.nodes = [t.nodes EXCEPT ![leaf_id + 1] = left]
          /\ u.root_id = t.root_id
          /\ left.size = leaf.size + 1 /\ left.next_leaf = leaf.next_leaf
     /\ leaf.size = t.order =>
          /\ Len(u.nodes) > Len(t.nodes)
          /\ left.size = mid /\ left.next_leaf = new_id
          /\ ReadNode(u, new_id).is_leaf
          /\ ReadNode(u, new_id).size = t.order + 1 - mid
          /\ ReadNode(u, new_id).next_leaf = leaf.next_leaf
          /\ left.keys \o ReadNode(u, new_id).keys
               = StableSort(leaf.keys \o <<[key |-> key, ref |-> ref]>>)
     /\ \A i \in 1..Len(t.nodes) :
          ~t.nodes[i].is_leaf =>
            \/ u.nodes[i] = t.nodes[i]
            \/ t.nodes[i].size < t.order /\ u.nodes[i].size = t.nodes[i].size + 1
            \/ t.nodes[i].size = t.order /\ u.nodes[i].size = mid
     /\ u.root_id # t.root_id =>
          /\ ReadNode(t, t.root_id).size = t.order
          /\ ReadNode(u, t.root_id).size = mid
          /\ u.root_id = Len(u.nodes) - 1 /\ u.root_id >= Len(t.nodes)
          /\ ReadNode(u, u.root_id).children = <<t.root_id, u.root_id - 1>>
     /\ u.root_id = t.root_id =>
          \/ ReadNode(t, t.root_id).size < t.order
          \/ ReadNode(u, t.root_id) = ReadNode(t, t.root_id)

\* C27: after every add every node file holds at most order keys, every
\* internal node has one child more than keys and all leaves lie at one
\* depth; a leaf or internal node that reaches order + 1 keys is split at the
\* midpoint, the new right leaf taking the old next_leaf and the left leaf
\* pointing to the new one, and the root changes only when the old root splits.
C27_Balanced ==
  (engine = "bplustree" /\ btRet.op = "add") =>
    /\ Balanced(bt)
    /\ \A k \in BtKeys : SplitsAtMidpoint(bt, k, MaxBtCalls + 1)

\* an add has split a leaf and the root above it: three levels
C27_Witness ==
  /\ engine = "bplustree" /\ btRet.op = "add"
  /\ LeafDepths(bt, bt.root_id) = {2}
  /\ \E i \in 1..Len(bt.nodes) : bt.nodes[i].is_leaf /\ bt.nodes[i].next_leaf = Len(bt.nodes) - 3


(***************************************************************************)
(* Capacity of pages: ISAMFile runs                                        *)
(***************************************************************************)
\* every page of the data file, primary or overflow, within BLOCK_FACTOR
PagesWithin(f) == \A i \in 1..Len(f.pages) : Len(f.pages[i].records) <= BLOCK_FACTOR

\* the ISAMFile part of C21: after every completed operation every page,
\* primary or overflow, holds at most BLOCK_FACTOR records
IsamPagesWithin == engine = "isamfile" => PagesWithin(isam)

\* an add did not fit a full page and went to an overflow page chained to it
IsamOverflowChained ==
  /\ engine = "isamfile"
  /\ isamRet.op = "add"
  /\ \E i, j \in 1..Len(isam.pages) :
       /\ Len(isam.pages[i].records) = BLOCK_FACTOR
       /\ isam.pages[i].next = j - 1
       /\ isam.pages[j].records # <<>>


(***************************************************************************)
(* Heap runs with interleaved calls.  A call of insert is three steps on   *)
(* the file: the counter is read, the record's bytes are written to the    *)
(* slot of that counter, the header is written with the counter plus one.  *)
(* read and scan_all read the counter, then the slots.  Nothing in Heap    *)
(* orders the steps of two calls.  budget is the number of inserts left.   *)
(***************************************************************************)
InitProcs(ws) ==
  /\ engine = "heap"
  /\ budget = MaxHeap
  /\ heap = HeapNew /\ heapLog = <<>>
  /\ heapRet = [op |-> "new", pos |-> 0, ok |-> TRUE, val |-> <<>>]
  /\ hp = [HpIdle EXCEPT !.active = ws]
  /\ CodecIdle /\ SeqIdle /\ IsamIdle /\ IxIdle /\ EhIdle /\ BtIdle

\* insert, first step: num_records = self._read_header()
WCount(w) ==
  \E rec \in HeapRecords :
    /\ w \in hp.active
    /\ hp.w[w].pc \in {"idle", "returned"}
    /\ budget > 0
    /\ budget' = budget - 1
    /\ hp' = [hp EXCEPT !.w[w] = [pc |-> "counted", n |-> HeapReadHeader(heap),
                                   rec |-> rec, ret |-> -1]]
    /\ UNCHANGED <<engine, heap, heapLog, heapRet, codecVars, seqVars, isamVars, ixVars, ehVars, btVars>>

\* insert, second step: the record written at the offset of num_records;
\* heapLog keeps the records in the order their bytes were written
WSlot(w) ==
  /\ hp.w[w].pc = "counted"
  /\ heap' = InsertSlot(heap, hp.w[w].n, hp.w[w].rec)
  /\ heapLog' = heapLog \o <<[rec |-> hp.w[w].rec, pos |-> hp.w[w].n]>>
  /\ hp' = [hp EXCEPT !.w[w].pc = "written"]
  /\ UNCHANGED <<heapRet, notHeap>>

\* insert, last step: self._write_header(num_records + 1); return num_records
WReturn(w) ==
  /\ hp.w[w].pc = "written"
  /\ heap' = InsertCount(heap, hp.w[w].n)
  /\ hp' = [hp EXCEPT !.w[w].pc = "returned", !.w[w].ret = hp.w[w].n]
  /\ UNCHANGED <<heapLog, heapRet, notHeap>>

\* read(pos) and scan_all, first step: num_records = self._read_header()
RCount ==
  \E op \in {"read", "scan"} : \E pos \in 0..MaxHeap :
    /\ hp.r.pc \in {"idle", "done"}
    /\ op = "scan" => pos = 0
    /\ hp' = [hp EXCEPT !.r = [pc |-> "counted", op |-> op, n |-> HeapReadHeader(heap),
                                pos |-> pos, st |-> "", val |-> <<>>]]
    /\ UNCHANGED <<heap, heapLog, heapRet, notHeap>>

\* read(pos), the rest: the range test against the counter read, then the
\* slot read from the file
RRead ==
  /\ hp.r.pc = "counted" /\ hp.r.op = "read"
  /\ hp' = [hp EXCEPT !.r.pc = "done",
        !.r.st = IF hp.r.pos < 0 \/ hp.r.pos >= hp.r.n THEN "raise"
                 ELSE IF hp.r.pos + 1 > Len(heap.slots) THEN "raise"
                 ELSE "ok",
        !.r.val = IF hp.r.pos < hp.r.n /\ hp.r.pos + 1 <= Len(heap.slots)
                  THEN FromBytes(TableFormat, heap.slots[hp.r.pos + 1])
                  ELSE <<>>]
  /\ UNCHANGED <<heap, heapLog, heapRet, notHeap>>

\* scan_all, the loop: one slot read per step, until num_records slots are
\* read or the file ends
RScan ==
  /\ hp.r.pc = "counted" /\ hp.r.op = "scan"
  /\ hp' = IF Len(hp.r.val) < hp.r.n /\ Len(hp.r.val) + 1 <= Len(heap.slots)
            THEN [hp EXCEPT !.r.val = @ \o <<FromBytes(TableFormat, heap.slots[Len(hp.r.val) + 1])>>]
            ELSE [hp EXCEPT !.r.pc = "done", !.r.st = "ok"]
  /\ UNCHANGED <<heap, heapLog, heapRet, notHeap>>

Write == \E w \in Writers : WCount(w) \/ WSlot(w) \/ WReturn(w)

\* two writers, no serialization by the caller
InitWriters == InitProcs(Writers)

SpecHeapWriters == InitWriters /\ [][Write]_vars

\* one writer and a reader
InitReaders == InitProcs({1})

NextReaders == Write \/ RCount \/ RRead \/ RScan

SpecHeapReaders == InitReaders /\ [][NextReaders]_vars

\* C26: insert gives no isolation between writers: when two inserts
\* interleave so that both read the counter before either writes it, both
\* return the same position, count() has grown by one only, and the slot
\* holds the record written last, the other record being overwritten.
C26_NoIsolation ==
  (hp.active = Writers /\ hp.w[1].pc = "returned" /\ hp.w[2].pc = "returned"
     /\ hp.w[1].n = hp.w[2].n) =>
    /\ hp.w[1].ret = hp.w[2].ret
    /\ HeapCount(heap) = hp.w[1].n + 1
    /\ heap.slots[hp.w[1].ret + 1] =
         ToBytes(TableFormat, CorrectFormat(TableFormat, heapLog[Len(heapLog)].rec))
    /\ HeapRead(heap, hp.w[1].ret).val = Stored(heapLog[Len(heapLog)].rec)

\* two inserts of different records have both returned position 0 and the
\* file holds one record
C26_Witness ==
  /\ hp.active = Writers
  /\ hp.w[1].pc = "returned" /\ hp.w[2].pc = "returned"
  /\ hp.w[1].ret = 0 /\ hp.w[2].ret = 0
  /\ hp.w[1].rec # hp.w[2].rec
  /\ HeapCount(heap) = 1
  /\ Len(HeapScanAll(heap)) = 1

\* C30: with one writer calling insert and a concurrent reader, every
\* position p the reader sees as p < count() holds the complete record of
\* the insert that returned p: read(p) returns it and scan_all returns the
\* records of positions 0 .. count() - 1.
C30_ReaderSeesWritten ==
  (hp.active = {1} /\ hp.r.pc = "done") =>
    /\ hp.r.n <= Len(heapLog)
    /\ hp.r.op = "read" =>
         IF hp.r.pos < hp.r.n
         THEN hp.r.st = "ok" /\ hp.r.val = Stored(heapLog[hp.r.pos + 1].rec)
         ELSE hp.r.st = "raise"
    /\ hp.r.op = "scan" =>
         hp.r.val = Tuple([i \in 1..hp.r.n |-> Stored(heapLog[i].rec)])

\* a read of the last counted position returned its record while the writer
\* had written the next slot and not yet the header
C30_Witness ==
  /\ hp.active = {1}
  /\ hp.r.pc = "done" /\ hp.r.op = "read" /\ hp.r.st = "ok"
  /\ hp.r.pos = hp.r.n - 1
  /\ hp.w[1].pc = "written"
  /\ Len(heap.slots) = HeapCount(heap) + 1

=============================================================================
